---------------------------- MODULE Spec2Model ----------------------------
(***************************************************************************)
(* A model of the download-planning and repair core of the DataVault API   *)
(* client: the partition planner and manifest builder                      *)
(* (pre_download_processing.py), the tree crawler (crawler.py) and the     *)
(* reconciliation engine (post_download_processing.py), with the file      *)
(* integrity test (data_integrity.py) and the per-thread session cache     *)
(* (downloaders.py).                                                       *)
(*                                                                         *)
(* The specifications of the module:                                       *)
(*   SpecPlanner      the planner's arithmetic applied to one (size, P)    *)
(*   SpecPlannerCli   the same for every P the command line accepts        *)
(*   SpecCrawler      datavault_crawler against a remote listing API       *)
(*   SpecCrawlerFair  SpecCrawler, the crawler's steps being taken         *)
(*   SpecPipeline     plan -> download -> reconcile -> concatenate, one    *)
(*                    attempt                                              *)
(*   SpecRetry        the attempts repeated with the retry manifest, each  *)
(*                    ended by the integrity check                         *)
(*   SpecReconcileTwice  one attempt, reconciled and concatenated twice    *)
(*   SpecNames        the file-name parsers applied to one file name       *)
(*   SpecIntegrity    data_integrity_test and the partition scan applied   *)
(*                    to one file and one state of the disk                *)
(*   SpecSessions     worker threads calling thread_get_session, their     *)
(*                    steps interleaved                                    *)
(*   SpecPartitionNames  the partition paths of one file generated, stored *)
(*                    and found again by the directory scan                *)
(***************************************************************************)
EXTENDS Integers, Sequences, FiniteSets, TLC

VARIABLES
    \* ---- planner (SpecPlanner) ----
    file_size_in_bytes,         \* the size argument of the planner functions
    partition_size_in_mib,      \* the partition size, see PartitionSizeUnitsPerByte
    planner_pc,                 \* "input" -> "checked" -> "planned" | "raised"
    is_partitioned,             \* result of check_if_partitioned
    list_of_lower_extremities,  \* result of calculate_list_of_partition_lower_extremities
    list_of_upper_extremities,  \* result of calculate_list_of_partition_upper_extremities
    partition_extremities,      \* result of calculate_list_of_partition_extremities
    \* ---- crawler (SpecCrawler) ----
    source_id,                  \* the source_id argument of datavault_crawler
    api,                        \* the responses the remote API has given, by url
    stack,                      \* the frontier: directory nodes still to visit
    leaf_nodes,                 \* the DiscoveredFileInfo tuples collected so far
    visited_nodes,              \* visited_nodes of traverse_api_directory_tree
    crawler_pc,                 \* "start" -> "traverse" -> "returned" | "raised"
    crawl_result,               \* what datavault_crawler returned, if it did
    requested_urls,             \* history: every url passed to session.get
    fetched_nodes,              \* history: every popped node whose children were fetched
    \* ---- pipeline (SpecPipeline) ----
    discovered_files_info,      \* the list of DiscoveredFileInfo handed to the planner
    whole_files_download_manifest,           \* first list of prepare_download_manifests
    files_and_partitions_download_manifest,  \* second list of prepare_download_manifests
    filesystem,                 \* the local files: path -> content
    failed_downloads_manifest,  \* result of pre_concatenation_processing
    pipeline_pc,                \* "discovered" -> "planned" -> "downloaded" ->
                                \* "reconciled" -> "concatenated" -> "checked"
                                \* -> "planned" | "succeeded" | "failed"
    download_manifest,          \* the manifest of the current download attempt
    download_attempts,          \* the download attempts made so far
    max_download_attempts,      \* --max-download-attempts of the command line
    failed_work_items,          \* history: the work items that failed in the last attempt
    files_failing_integrity,    \* the files that data_integrity_test found corrupt
    \* ---- file names (SpecNames) ----
    raw_file_name,              \* the argument of clean_raw_filename
    cleaned_file_name,          \* what clean_raw_filename returned or raised
    names_pc,                   \* "input" -> "cleaned" | "parsed" | "sorted"
    \* ---- integrity checker (SpecIntegrity) ----
    tested_file,                \* the DownloadDetails under test
    integrity_result,           \* what data_integrity_test returned or raised
    missing_result,             \* what get_file_specific_missing_partitions gave
    integrity_pc,               \* "input" -> "tested" | "scanned"
    \* ---- session cache (SpecSessions) ----
    thread_local,               \* per namespace: None or [session |-> Session]
    new_session,                \* per thread: the Session() just constructed
    sessions_created,           \* how many Session objects were constructed
    mounted_sessions,           \* the sessions that got the retrying adapter
    obtained_sessions,          \* per thread: what its calls returned, in order
    session_pc,                 \* per thread: its position in thread_get_session
    \* ---- partition names (SpecPartitionNames) ----
    partitioned_file_path,      \* the local path of a partitioned file
    number_of_partitions,       \* how many partitions the planner gave it
    generated_partition_paths,  \* generate_path_to_file_partition for each of them
    found_partitions,           \* what get_downloaded_partitions returned
    partition_names_pc,         \* "input" -> "generated" -> "stored" -> "scanned"
    \* ---- name parsing (SpecNames) ----
    parsed_source,              \* what parse_source_from_name returned or raised
    parsed_index                \* the sort key get_downloaded_partitions took

planner_vars == <<file_size_in_bytes, planner_pc, is_partitioned,
                  list_of_lower_extremities, list_of_upper_extremities,
                  partition_extremities>>

crawler_vars == <<source_id, api, stack, leaf_nodes, visited_nodes, crawler_pc,
                  crawl_result, requested_urls, fetched_nodes>>

reconciliation_vars == <<discovered_files_info, whole_files_download_manifest,
                         files_and_partitions_download_manifest,
                         failed_downloads_manifest, pipeline_pc, download_manifest,
                         download_attempts, max_download_attempts,
                         failed_work_items, files_failing_integrity>>

pipeline_vars == <<reconciliation_vars, filesystem>>

names_vars == <<raw_file_name, cleaned_file_name, names_pc, parsed_source,
                parsed_index>>

\* The variables of the specifications that apply one function to one input.
integrity_vars == <<tested_file, integrity_result, missing_result, integrity_pc>>

session_vars == <<thread_local, new_session, sessions_created, mounted_sessions,
                  obtained_sessions, session_pc>>

partition_names_vars == <<partitioned_file_path, number_of_partitions,
                          generated_partition_paths, found_partitions,
                          partition_names_pc>>

unit_vars == <<names_vars, integrity_vars, session_vars, partition_names_vars>>

vars == <<planner_vars, partition_size_in_mib, crawler_vars, pipeline_vars,
          unit_vars>>

(***************************************************************************)
(* Bounds of the model.                                                    *)
(***************************************************************************)
\* File sizes 0..MaxFileSize are enumerated (besides the documented examples).
MaxFileSize == 16
\* A partition size is held as the integer u = size_in_mib * 1024**2 *
\* PartitionSizeUnitsPerByte, i.e. in units of 1/PartitionSizeUnitsPerByte of
\* a byte, so that fractional byte counts (and exact .5 ties) reach round().
PartitionSizeUnitsPerByte == 20
\* Partition sizes 1..MaxPartitionSizeUnits units are enumerated.
MaxPartitionSizeUnits == 70

(***************************************************************************)
(* Program constants.                                                      *)
(***************************************************************************)
\* 1024**2, the bytes of one MiB.
BytesPerMiB == 1048576

(***************************************************************************)
(* The values the variables of one component keep while a specification of *)
(* another component runs.                                                 *)
(***************************************************************************)
PlannerIdle ==
    /\ file_size_in_bytes = 0
    /\ planner_pc = "idle"
    /\ is_partitioned = FALSE
    /\ list_of_lower_extremities = <<>>
    /\ list_of_upper_extremities = <<>>
    /\ partition_extremities = <<>>

CrawlerIdle ==
    /\ source_id = [none |-> TRUE]
    /\ api = <<>>
    /\ stack = <<>>
    /\ leaf_nodes = <<>>
    /\ visited_nodes = <<>>
    /\ crawler_pc = "idle"
    /\ crawl_result = [returned |-> FALSE]
    /\ requested_urls = <<>>
    /\ fetched_nodes = <<>>

ReconciliationIdle ==
    /\ discovered_files_info = <<>>
    /\ whole_files_download_manifest = <<>>
    /\ files_and_partitions_download_manifest = <<>>
    /\ failed_downloads_manifest = [none |-> TRUE]
    /\ pipeline_pc = "idle"
    /\ download_manifest = [none |-> TRUE]
    /\ download_attempts = 0
    /\ max_download_attempts = 0
    /\ failed_work_items = {}
    /\ files_failing_integrity = {}

PipelineIdle ==
    /\ ReconciliationIdle
    /\ filesystem = <<>>

NamesIdle ==
    /\ raw_file_name = [none |-> TRUE]
    /\ cleaned_file_name = [none |-> TRUE]
    /\ parsed_source = [none |-> TRUE]
    /\ parsed_index = [none |-> TRUE]
    /\ names_pc = "idle"

IntegrityIdle ==
    /\ tested_file = [none |-> TRUE]
    /\ integrity_result = [none |-> TRUE]
    /\ missing_result = [none |-> TRUE]
    /\ integrity_pc = "idle"

SessionsIdle ==
    /\ thread_local = <<>>
    /\ new_session = <<>>
    /\ sessions_created = 0
    /\ mounted_sessions = {}
    /\ obtained_sessions = <<>>
    /\ session_pc = <<>>

PartitionNamesIdle ==
    /\ partitioned_file_path = [none |-> TRUE]
    /\ number_of_partitions = 0
    /\ generated_partition_paths = <<>>
    /\ found_partitions = <<>>
    /\ partition_names_pc = "idle"

UnitsIdle == NamesIdle /\ IntegrityIdle /\ SessionsIdle /\ PartitionNamesIdle

(***************************************************************************)
(* Python helpers.                                                         *)
(***************************************************************************)
\* Python 3's round(num/den) for num >= 0, den > 0: to nearest, ties to even.
RoundHalfEven(num, den) ==
    LET f == num \div den
        r == num % den
    IN  IF 2 * r < den THEN f
        ELSE IF 2 * r > den THEN f + 1
        ELSE IF f % 2 = 0 THEN f ELSE f + 1

\* zip(a, b): pairs up to the shorter of the two lists.
Zip(a, b) ==
    LET n == IF Len(a) < Len(b) THEN Len(a) ELSE Len(b)
    IN  [i \in 1..n |-> <<a[i], b[i]>>]

(***************************************************************************)
(* The partition planner, pre_download_processing.py.                      *)
(***************************************************************************)
\* round(size_in_mib * (1024**2)); size_in_mib * 1024**2 is the rational
\* size_in_mib_units / PartitionSizeUnitsPerByte.  The float product is
\* exact at the .5 ties (they need a dyadic size_in_mib) and within 2^-52
\* of the rational elsewhere, where the nearest tie is 1/40 or more away.
convert_mib_to_bytes(size_in_mib) ==
    RoundHalfEven(size_in_mib, PartitionSizeUnitsPerByte)

\* round((bytes * 2) + (0.8 * bytes)) = round(14 * bytes / 5).  The exact
\* value has a fraction in {0, .2, .4, .6, .8}: the float sum (error below
\* 1e-6 for any size below 2^31) rounds as the rational does.
calculate_multi_part_threshold(partition_size) ==
    RoundHalfEven((convert_mib_to_bytes(partition_size) * 2) * 5
                      + 4 * convert_mib_to_bytes(partition_size), 5)

check_if_partitioned_strictly_larger(file_size, partition_size) ==
    IF file_size > calculate_multi_part_threshold(partition_size)
    THEN TRUE ELSE FALSE

check_if_partitioned(file_size, partition_size) ==
    IF file_size >= calculate_multi_part_threshold(partition_size)
    THEN TRUE ELSE FALSE

\* file_size_in_bytes // 0 and file_size_in_bytes % 0: a partition size that
\* convert_mib_to_bytes rounds to 0 bytes makes both raise.
ZeroDivisionError(partition_size) == convert_mib_to_bytes(partition_size) = 0

calculate_number_of_same_size_partitions(file_size, partition_size) ==
    file_size \div convert_mib_to_bytes(partition_size)

calculate_size_of_last_partition(file_size, partition_size) ==
    file_size % convert_mib_to_bytes(partition_size)

upper_extremities_always_appending_size(file_size, partition_size) ==
    [i \in 1..calculate_number_of_same_size_partitions(file_size, partition_size)
        |-> convert_mib_to_bytes(partition_size) * i] \o <<file_size>>

calculate_list_of_partition_upper_extremities(file_size, partition_size) ==
    LET same_size ==
            [i \in 1..calculate_number_of_same_size_partitions(file_size, partition_size)
                |-> convert_mib_to_bytes(partition_size) * i]
    IN  IF calculate_size_of_last_partition(file_size, partition_size) # 0
        THEN same_size \o <<file_size>>
        ELSE same_size

lower_extremities_without_increment(file_size, partition_size) ==
    LET kept == SelectSeq(
            calculate_list_of_partition_upper_extremities(file_size, partition_size),
            LAMBDA upper_extremity : upper_extremity < file_size)
    IN  <<0>> \o [i \in 1..Len(kept) |-> kept[i]]

calculate_list_of_partition_lower_extremities(file_size, partition_size) ==
    LET kept == SelectSeq(
            calculate_list_of_partition_upper_extremities(file_size, partition_size),
            LAMBDA upper_extremity : upper_extremity < file_size)
    IN  <<0>> \o [i \in 1..Len(kept) |-> kept[i] + 1]

calculate_list_of_partition_extremities(file_size, partition_size) ==
    LET pairs == Zip(
            calculate_list_of_partition_lower_extremities(file_size, partition_size),
            calculate_list_of_partition_upper_extremities(file_size, partition_size))
    IN  [i \in 1..Len(pairs) |-> [start |-> pairs[i][1], end |-> pairs[i][2]]]

(***************************************************************************)
(* Inputs of the planner.                                                  *)
(***************************************************************************)
\* 5.0 MiB, the default of --partition-size and of prepare_download_manifests.
FiveMiB == 5 * BytesPerMiB * PartitionSizeUnitsPerByte

\* The partition sizes of at least one byte.
PartitionSizes ==
    {u \in 1..MaxPartitionSizeUnits : convert_mib_to_bytes(u) >= 1} \cup {FiveMiB}

\* The sizes used with 5.0 MiB in the tests and the documentation.
DocumentedFileSizes ==
    {12897485, 14680063, 14680064, 23383245, 57671680, 61663360}

FileSizes == 0..MaxFileSize

PlannerInputs ==
    {<<s, p>> : s \in FileSizes, p \in PartitionSizes \ {FiveMiB}}
        \cup {<<s, FiveMiB>> : s \in DocumentedFileSizes}

(***************************************************************************)
(* SpecPlanner: the planner applied to one input.                          *)
(***************************************************************************)
InitPlanner ==
    /\ \E input \in PlannerInputs :
        /\ file_size_in_bytes = input[1]
        /\ partition_size_in_mib = input[2]
    /\ planner_pc = "input"
    /\ is_partitioned = FALSE
    /\ list_of_lower_extremities = <<>>
    /\ list_of_upper_extremities = <<>>
    /\ partition_extremities = <<>>
    /\ CrawlerIdle
    /\ PipelineIdle
    /\ UnitsIdle

CheckIfPartitioned ==
    /\ planner_pc = "input"
    /\ is_partitioned' = check_if_partitioned(file_size_in_bytes, partition_size_in_mib)
    /\ planner_pc' = "checked"
    /\ UNCHANGED <<file_size_in_bytes, partition_size_in_mib, list_of_lower_extremities,
                   list_of_upper_extremities, partition_extremities, crawler_vars,
                   pipeline_vars, unit_vars>>

CalculateExtremities ==
    /\ planner_pc = "checked"
    /\ IF ZeroDivisionError(partition_size_in_mib)
       THEN /\ planner_pc' = "raised"
            /\ UNCHANGED <<list_of_lower_extremities, list_of_upper_extremities,
                           partition_extremities>>
       ELSE /\ list_of_lower_extremities' =
                    calculate_list_of_partition_lower_extremities(
                        file_size_in_bytes, partition_size_in_mib)
            /\ list_of_upper_extremities' =
                    calculate_list_of_partition_upper_extremities(
                        file_size_in_bytes, partition_size_in_mib)
            /\ partition_extremities' = calculate_list_of_partition_extremities(
                    file_size_in_bytes, partition_size_in_mib)
            /\ planner_pc' = "planned"
    /\ UNCHANGED <<file_size_in_bytes, partition_size_in_mib, is_partitioned,
                   crawler_vars, pipeline_vars, unit_vars>>

NextPlanner ==
    \/ CheckIfPartitioned
    \/ CalculateExtremities

SpecPlanner == InitPlanner /\ [][NextPlanner]_vars

\* The values of --partition-size (click.FLOAT, no range check) from 0 up.
AcceptedPartitionSizes == 0..MaxPartitionSizeUnits

\* The planner applied to any file size and any accepted partition size.
InitPlannerCli ==
    /\ file_size_in_bytes \in FileSizes
    /\ partition_size_in_mib \in AcceptedPartitionSizes
    /\ planner_pc = "input"
    /\ is_partitioned = FALSE
    /\ list_of_lower_extremities = <<>>
    /\ list_of_upper_extremities = <<>>
    /\ partition_extremities = <<>>
    /\ CrawlerIdle
    /\ PipelineIdle
    /\ UnitsIdle

SpecPlannerCli == InitPlannerCli /\ [][NextPlanner]_vars

(***************************************************************************)
(* Claims about the planner, checked under SpecPlanner.                    *)
(***************************************************************************)
PartitionSizeInBytes == convert_mib_to_bytes(partition_size_in_mib)

\* C1: for every size S and partition size P with S >= multiPartThreshold(P)
\* the ranges returned by calculate_list_of_partition_extremities(S, P) start
\* at 0, have start <= end, are contiguous (each next start is the previous
\* end + 1) and end at S exactly.
C1_ExtremitiesCoverFile ==
    (/\ planner_pc = "planned"
     /\ file_size_in_bytes >= calculate_multi_part_threshold(partition_size_in_mib))
    => LET e == partition_extremities
       IN  /\ Len(e) >= 1
           /\ e[1].start = 0
           /\ \A i \in 1..Len(e) : e[i].start <= e[i].end
           /\ \A i \in 1..(Len(e) - 1) : e[i + 1].start = e[i].end + 1
           /\ e[Len(e)].end = file_size_in_bytes

\* A partitioned file with a trailing partial partition has been planned.
C1_Witness ==
    /\ planner_pc = "planned"
    /\ file_size_in_bytes >= calculate_multi_part_threshold(partition_size_in_mib)
    /\ file_size_in_bytes % PartitionSizeInBytes # 0
    /\ Len(partition_extremities) >= 4

\* The number of ranges is floor(S / B), plus one exactly when S mod B # 0,
\* and a size that is a multiple of B gets no trailing range.
RangeCountIsExact ==
    LET e == partition_extremities
        b == PartitionSizeInBytes
    IN  /\ Len(e) = (file_size_in_bytes \div b)
                        + (IF file_size_in_bytes % b # 0 THEN 1 ELSE 0)
        /\ (file_size_in_bytes % b = 0 /\ Len(e) > 0)
            => /\ e[Len(e)].end = file_size_in_bytes
               /\ e[Len(e)].start <= e[Len(e)].end
               /\ \A i \in 1..(Len(e) - 1) : e[i].end < file_size_in_bytes

\* C2 as stated: for every size S and partition byte size B the range count is
\* exact and the lower and upper extremity lists always have the same length.
C2_AsStated ==
    planner_pc = "planned"
    => /\ RangeCountIsExact
       /\ Len(list_of_lower_extremities) = Len(list_of_upper_extremities)

\* C2 amended: the range count is exact for every size S; the lower and upper
\* extremity lists have the same length for every size S >= 1 (an empty file
\* has the lower extremity 0 and no upper extremity).
C2_Amended ==
    planner_pc = "planned"
    => /\ RangeCountIsExact
       /\ file_size_in_bytes >= 1
            => Len(list_of_lower_extremities) = Len(list_of_upper_extremities)
       /\ file_size_in_bytes = 0
            => /\ list_of_lower_extremities = <<0>>
               /\ list_of_upper_extremities = <<>>
               /\ partition_extremities = <<>>

\* A size that is an exact multiple (3 times or more) of B has been planned.
C2_Witness ==
    /\ planner_pc = "planned"
    /\ file_size_in_bytes % PartitionSizeInBytes = 0
    /\ Len(partition_extremities) >= 3
    /\ Len(list_of_lower_extremities) = Len(partition_extremities)

C26_PlannerRaisesNoError == planner_pc # "raised"

\* The bytes that the inclusive range [start, end] names.
RangeSize(range) == range.end - range.start + 1

\* C21: for a partitioned file of size S and partition byte size B, each of
\* the floor(S / B) non-trailing partitions covers exactly B bytes under the
\* inclusive [start, end] convention (end - start + 1 = B), and the trailing
\* partition, when present, covers exactly S mod B bytes.
C21_PartitionsCoverExactlyTheirSize ==
    (/\ planner_pc = "planned"
     /\ is_partitioned)
    => LET e == partition_extremities
           b == PartitionSizeInBytes
           k == file_size_in_bytes \div b
       IN  /\ Len(e) >= k
           /\ \A i \in 1..k : RangeSize(e[i]) = b
           /\ file_size_in_bytes % b # 0
                => /\ Len(e) = k + 1
                   /\ RangeSize(e[k + 1]) = file_size_in_bytes % b

\* C22: every file selected for partitioning (size >= multiPartThreshold(P))
\* is split into at least two full-size partitions plus one additional
\* trailing partition whose size is at least 0.8 * B.
C22_TwoFullPartitionsAndASizeableRemainder ==
    (/\ planner_pc = "planned"
     /\ is_partitioned)
    => LET e == partition_extremities
           b == PartitionSizeInBytes
           k == file_size_in_bytes \div b
       IN  /\ k >= 2
           /\ Len(e) = k + 1
           /\ 10 * (file_size_in_bytes % b) >= 8 * b

(***************************************************************************)
(* Strings.  A string is held as [parts |-> p], p the sequence of its      *)
(* "_"-separated components, each the sequence of its "."-separated        *)
(* pieces: "A_1.txt.bz2" is [parts |-> << <<"A">>, <<"1", "txt", "bz2">> >>].*)
(* None is [none |-> TRUE]; a raised exception is [raised |-> <its name>]. *)
(***************************************************************************)
Str(parts) == [parts |-> parts]

None == [none |-> TRUE]

Raised(exception) == [raised |-> exception]

IsRaised(value) == "raised" \in DOMAIN value

\* Python's truth value of an Optional[str]: None and "" are false.
IsFalsy(value) == value = None \/ value = Str(<< <<"">> >>)

(***************************************************************************)
(* The crawler, crawler.py.                                                *)
(***************************************************************************)
\* The first pieces of the modelled names that start with "WATCHLIST".
PiecesStartingWithWatchlist == {"WATCHLIST", "WATCHLISTS"}

\* raw_filename.startswith("WATCHLIST"): the prefix holds no "_" and no ".",
\* so it is a prefix of the name exactly when it is one of its first piece.
StartsWithWatchlist(raw_filename) ==
    raw_filename.parts[1][1] \in PiecesStartingWithWatchlist

clean_raw_filename(raw_filename) ==
    IF StartsWithWatchlist(raw_filename)
    THEN LET filename_components == raw_filename.parts
         IN  IF Len(filename_components) < 4
             THEN Raised("IndexError")
             ELSE Str(<<filename_components[1], filename_components[3],
                        filename_components[4]>>)
    ELSE raw_filename

parse_source_from_name(file_name) ==
    IF IsRaised(file_name) THEN file_name
    ELSE IF Len(file_name.parts) < 2 THEN Raised("IndexError")
    ELSE Str(<<file_name.parts[2]>>)

\* urllib.parse.urljoin(<origin>, url_path): the path of the API node under
\* the one fixed origin.
ApiOrigin == "https://api.icedatavault.icedataservices.com"

create_node_url(url_path) ==
    [origin |-> ApiOrigin, path |-> url_path, query |-> <<>>]

create_discovered_file_object(file_node) ==
    IF IsRaised(parse_source_from_name(clean_raw_filename(file_node.name)))
    THEN parse_source_from_name(clean_raw_filename(file_node.name))
    ELSE [file_name |-> clean_raw_filename(file_node.name),
          download_url |-> create_node_url(file_node.url),
          source |-> parse_source_from_name(clean_raw_filename(file_node.name)),
          size |-> file_node.size,
          md5sum |-> file_node.md5sum]

\* response.raise_for_status() of requests: raises HTTPError on 4xx and 5xx.
raise_for_status_disabled(status_code) == FALSE

raise_for_status(status_code) ==
    400 <= status_code /\ status_code < 600

\* The test deciding whether a leaf neighbour is collected: no source_id, or
\* the source parsed from the cleaned name equals it.
leaf_is_selected_by_raw_name(neighbour, source) ==
    IF IsFalsy(source) THEN TRUE
    ELSE parse_source_from_name(neighbour.name) = source

leaf_is_selected(neighbour, source) ==
    IF IsFalsy(source) THEN TRUE
    ELSE parse_source_from_name(clean_raw_filename(neighbour.name)) = source

\* The loop over the neighbours of a fetched node, shared by initialise_search
\* and traverse_api_directory_tree: directories are pushed, selected leaves
\* are collected; an exception raised for a leaf ends the loop.
RECURSIVE classify_neighbours(_, _, _, _)
classify_neighbours(neighbours, stk, leaves, source) ==
    IF neighbours = <<>>
    THEN [stack |-> stk, leaf_nodes |-> leaves, raised |-> FALSE]
    ELSE LET neighbour == Head(neighbours)
         IN  IF neighbour.directory
             THEN classify_neighbours(Tail(neighbours), Append(stk, neighbour),
                                      leaves, source)
             ELSE IF IsRaised(parse_source_from_name(clean_raw_filename(neighbour.name)))
             THEN [stack |-> stk, leaf_nodes |-> leaves, raised |-> TRUE]
             ELSE IF leaf_is_selected(neighbour, source)
             THEN classify_neighbours(Tail(neighbours), stk,
                        Append(leaves, create_discovered_file_object(neighbour)), source)
             ELSE classify_neighbours(Tail(neighbours), stk, leaves, source)

\* node_to_visit not in visited_nodes, negated.
never_visited(node_to_visit, visited) == FALSE

already_visited(node_to_visit, visited) ==
    \E i \in 1..Len(visited) : visited[i] = node_to_visit

(***************************************************************************)
(* The remote API: the nodes it may list and the responses it may give.    *)
(***************************************************************************)
\* The listings of the remote API hold at most MaxListedNodes entries in all.
MaxListedNodes == 4

StartUrl == create_node_url(<<"v2", "list">>)

DirectoryNodes ==
    {[name |-> Str(<< <<"2020">> >>), url |-> <<"v2", "list", "2020">>,
      size |-> 0, directory |-> TRUE],
     [name |-> Str(<< <<"07">> >>), url |-> <<"v2", "list", "2020", "07">>,
      size |-> 0, directory |-> TRUE]}

WatchlistFileNode ==
    [name |-> Str(<< <<"WATCHLIST">>, <<"jdoe">>, <<"367">>,
                     <<"20200716", "txt", "bz2">> >>),
     url |-> <<"v2", "data", "2020", "07", "16", "S367", "WATCHLIST",
               "20200716-S367_WATCHLIST_jdoe_0_0">>,
     size |-> 4, md5sum |-> "fb34325ec9262adc74c945a9e7c9b465", directory |-> FALSE]

CorerefFileNode ==
    [name |-> Str(<< <<"COREREF">>, <<"207">>, <<"20200716", "txt", "bz2">> >>),
     url |-> <<"v2", "data", "2020", "07", "16", "S207", "COREREF",
               "20200716-S207_COREREF_0_0">>,
     size |-> 3, md5sum |-> "3548e03c8833b0e2133c80ac3b1dcdac", directory |-> FALSE]

FileNodes == {WatchlistFileNode, CorerefFileNode}

RemoteNodes == DirectoryNodes \cup FileNodes

\* The listings of at most max_length entries.
Listings(max_length) == UNION {[1..n -> RemoteNodes] : n \in 0..max_length}

StatusCodes == {200, 404, 503}

\* The responses to a request: a listing, or an error status.
Responses(max_length) ==
    {[status_code |-> 200, body |-> listing] : listing \in Listings(max_length)}
        \cup {[status_code |-> code, body |-> <<>>] : code \in StatusCodes \ {200}}

\* The places <<url, i>> where the remote API has listed a node so far.
ListedAt ==
    UNION {{<<u, i>> : i \in 1..Len(api[u].body)} : u \in DOMAIN api}

\* The responses the remote API may give to a request for url: the one it
\* gave before, or a new one that keeps its listings within MaxListedNodes.
ResponsesTo(url) ==
    IF url \in DOMAIN api
    THEN {api[url]}
    ELSE Responses(MaxListedNodes - Cardinality(ListedAt))

SourceIds == {None, Str(<< <<"367">> >>), Str(<< <<"207">> >>)}

(***************************************************************************)
(* SpecCrawler: datavault_crawler, one session.get per step.               *)
(***************************************************************************)
InitCrawler ==
    /\ source_id \in SourceIds
    /\ api = <<>>
    /\ stack = <<>>
    /\ leaf_nodes = <<>>
    /\ visited_nodes = <<>>
    /\ crawler_pc = "start"
    /\ crawl_result = [returned |-> FALSE]
    /\ requested_urls = <<>>
    /\ fetched_nodes = <<>>
    /\ PlannerIdle
    /\ partition_size_in_mib = FiveMiB
    /\ PipelineIdle
    /\ UnitsIdle

\* session.get(url): the remote API answers a url as it answered it before.
SessionGet(url, response) ==
    /\ api' = (url :> response) @@ api
    /\ requested_urls' = Append(requested_urls, url)

\* initialise_search: fetch the start url and classify its children.
InitialiseSearch ==
    /\ crawler_pc = "start"
    /\ \E response \in ResponsesTo(StartUrl) :
        /\ SessionGet(StartUrl, response)
        /\ IF raise_for_status(response.status_code)
           THEN /\ crawler_pc' = "raised"
                /\ UNCHANGED <<stack, leaf_nodes>>
           ELSE LET found == classify_neighbours(response.body, <<>>, <<>>, source_id)
                IN  /\ stack' = found.stack
                    /\ leaf_nodes' = found.leaf_nodes
                    /\ crawler_pc' = IF found.raised THEN "raised" ELSE "traverse"
    /\ UNCHANGED <<source_id, visited_nodes, crawl_result, fetched_nodes>>
    /\ UNCHANGED <<planner_vars, partition_size_in_mib, pipeline_vars, unit_vars>>

\* The entry pushed first is taken.
list_pop_first(list) ==
    [node |-> list[1], remaining |-> Tail(list)]

\* list.pop(): the last entry, and the list without it.
list_pop(list) ==
    [node |-> list[Len(list)], remaining |-> SubSeq(list, 1, Len(list) - 1)]

\* One iteration of the while loop of traverse_api_directory_tree.
TraverseApiDirectoryTree ==
    /\ crawler_pc = "traverse"
    /\ Len(stack) # 0
    /\ LET node_to_visit == list_pop(stack).node
           popped == list_pop(stack).remaining
       IN  IF already_visited(node_to_visit, visited_nodes)
           THEN /\ stack' = popped
                /\ UNCHANGED <<api, leaf_nodes, visited_nodes, crawler_pc,
                               requested_urls, fetched_nodes>>
           ELSE /\ visited_nodes' = Append(visited_nodes, node_to_visit)
                /\ fetched_nodes' = Append(fetched_nodes, node_to_visit)
                /\ \E response \in ResponsesTo(create_node_url(node_to_visit.url)) :
                    /\ SessionGet(create_node_url(node_to_visit.url), response)
                    /\ IF raise_for_status(response.status_code)
                       THEN /\ crawler_pc' = "raised"
                            /\ stack' = popped
                            /\ UNCHANGED leaf_nodes
                       ELSE LET found == classify_neighbours(
                                    response.body, popped, leaf_nodes, source_id)
                            IN  /\ stack' = found.stack
                                /\ leaf_nodes' = found.leaf_nodes
                                /\ crawler_pc' =
                                    IF found.raised THEN "raised" ELSE "traverse"
    /\ UNCHANGED <<source_id, crawl_result>>
    /\ UNCHANGED <<planner_vars, partition_size_in_mib, pipeline_vars, unit_vars>>

\* The loop ends on an empty stack; datavault_crawler returns leaf_nodes.
ReturnLeafNodes ==
    /\ crawler_pc = "traverse"
    /\ Len(stack) = 0
    /\ crawl_result' = [returned |-> TRUE, files |-> leaf_nodes]
    /\ crawler_pc' = "returned"
    /\ UNCHANGED <<source_id, api, stack, leaf_nodes, visited_nodes,
                   requested_urls, fetched_nodes>>
    /\ UNCHANGED <<planner_vars, partition_size_in_mib, pipeline_vars, unit_vars>>

NextCrawler ==
    \/ InitialiseSearch
    \/ TraverseApiDirectoryTree
    \/ ReturnLeafNodes

SpecCrawler == InitCrawler /\ [][NextCrawler]_vars

\* The crawler is one sequential thread: a step that can be taken is taken.
SpecCrawlerFair == SpecCrawler /\ WF_vars(NextCrawler)

(***************************************************************************)
(* Claims about the crawler, checked under SpecCrawler and SpecCrawlerFair.*)
(***************************************************************************)
TimesListed(node) ==
    Cardinality({place \in ListedAt : api[place[1]].body[place[2]] = node})

\* The remote nodes form a proper tree under the start url: no node is listed
\* twice (the urls of distinct nodes differ, and none is the start url).
IsProperTree == \A node \in RemoteNodes : TimesListed(node) <= 1

CountIn(list, element) ==
    Cardinality({i \in 1..Len(list) : list[i] = element})

LeafIsExpected(leaf) ==
    /\ TimesListed(leaf) >= 1
    /\ \/ IsFalsy(source_id)
       \/ parse_source_from_name(clean_raw_filename(leaf.name)) = source_id

\* C8: for a finite remote tree datavault_crawler returns every leaf reachable
\* from the start url exactly once when no source filter is given, and with a
\* source_id exactly the reachable leaves whose
\* parse_source_from_name(clean_raw_filename(name)) equals it.
C8_CrawlerReturnsExactlyTheSelectedLeaves ==
    (crawler_pc = "returned" /\ IsProperTree)
    => /\ crawl_result.returned
       \* every listed directory was expanded, so every listed leaf is reachable
       /\ \A directory \in DirectoryNodes :
            TimesListed(directory) >= 1 => create_node_url(directory.url) \in DOMAIN api
       /\ \A leaf \in FileNodes :
            CountIn(crawl_result.files, create_discovered_file_object(leaf))
                = IF LeafIsExpected(leaf) THEN 1 ELSE 0
       /\ Len(crawl_result.files)
            = Cardinality({leaf \in FileNodes : LeafIsExpected(leaf)})
       /\ \A i \in 1..Len(crawl_result.files) :
            /\ crawl_result.files[i].file_name.parts[1][1] = "WATCHLIST"
                => crawl_result.files[i].source = Str(<< <<"367">> >>)
            /\ IsFalsy(source_id) \/ crawl_result.files[i].source = source_id

\* A crawl with a source filter over a tree two directories deep, holding a
\* matching and a non-matching leaf, has returned.
C8_Witness ==
    /\ crawler_pc = "returned"
    /\ IsProperTree
    /\ source_id = Str(<< <<"367">> >>)
    /\ \A leaf \in FileNodes : TimesListed(leaf) = 1
    /\ Len(fetched_nodes) = 2
    /\ Len(crawl_result.files) = 1

IsSuccess(status_code) == 200 <= status_code /\ status_code < 300

C10_TraversalTerminates ==
    /\ <>(\/ crawler_pc = "raised"
          \/ crawler_pc = "returned" /\ stack = <<>>)
    /\ [](\A i, j \in 1..Len(fetched_nodes) :
            i # j => fetched_nodes[i] # fetched_nodes[j])

\* A crawl over listings in which a directory lists itself or is listed twice
\* has returned.
C10_Witness ==
    /\ crawler_pc = "returned"
    /\ \E directory \in DirectoryNodes : TimesListed(directory) >= 2
    /\ \E directory \in DirectoryNodes :
        /\ create_node_url(directory.url) \in DOMAIN api
        /\ \E i \in 1..Len(api[create_node_url(directory.url)].body) :
            api[create_node_url(directory.url)].body[i] = directory
    /\ Len(fetched_nodes) = 2

\* The nodes the remote API has listed for the directory.
ListedBy(directory) ==
    IF create_node_url(directory.url) \in DOMAIN api
    THEN {api[create_node_url(directory.url)].body[i] :
            i \in 1..Len(api[create_node_url(directory.url)].body)}
    ELSE {}

\* The nodes listed by the directory or by a directory under it, depth
\* levels down.
RECURSIVE NodesUnder(_, _)
NodesUnder(directory, depth) ==
    IF depth = 0 THEN {}
    ELSE ListedBy(directory)
            \cup UNION {NodesUnder(below, depth - 1) :
                        below \in {node \in ListedBy(directory) : node.directory}}

FilesUnder(directory) ==
    {node \in NodesUnder(directory, Cardinality(DirectoryNodes)) : ~node.directory}

\* The file is in the result of the crawl.
Found(leaf) ==
    \E i \in 1..Len(crawl_result.files) :
        crawl_result.files[i] = create_discovered_file_object(leaf)

\* Where the file is in the result of the crawl.
PositionFound(leaf) ==
    CHOOSE i \in 1..Len(crawl_result.files) :
        crawl_result.files[i] = create_discovered_file_object(leaf)

\* C24: the crawler expands the most recently pushed unexplored directory
\* next (LIFO): for two sibling directories listed A before B, every file
\* found under B is appended to the result before any file found under A, and
\* the files listed directly in a directory are appended before any file of
\* its subdirectories.
C24_LastListedDirectoryIsExpandedFirst ==
    (crawler_pc = "returned" /\ IsProperTree)
    => \A url \in DOMAIN api :
        LET listing == api[url].body
        IN  /\ \A i, j \in 1..Len(listing) :
                (i < j /\ listing[i].directory /\ listing[j].directory)
                => \A under_a \in FilesUnder(listing[i]), under_b \in FilesUnder(listing[j]) :
                    (Found(under_a) /\ Found(under_b))
                    => PositionFound(under_b) < PositionFound(under_a)
            /\ \A i, j \in 1..Len(listing) :
                (~listing[i].directory /\ listing[j].directory)
                => \A below \in FilesUnder(listing[j]) :
                    (Found(listing[i]) /\ Found(below))
                    => PositionFound(listing[i]) < PositionFound(below)

\* The start listing holds two directories, each listing one file, and both
\* files were returned.
C24_Witness ==
    /\ crawler_pc = "returned"
    /\ IsProperTree
    /\ Len(api[StartUrl].body) = 2
    /\ \A i \in 1..2 :
        /\ api[StartUrl].body[i].directory
        /\ Cardinality(FilesUnder(api[StartUrl].body[i])) = 1
    /\ Len(crawl_result.files) = 2

(***************************************************************************)
(* Paths and file names.  A pathlib.Path is held as [parent |-> d,         *)
(* name |-> s], d the sequence of its directory components and s the file  *)
(* name as a string (see Strings).  The modelled file names have their     *)
(* dots in the last "_"-separated component only.                          *)
(***************************************************************************)
\* str(k) for the partition indexes of the model, and int(s) back.
DecimalStrings ==
    <<"1", "2", "3", "4", "5", "6", "7", "8", "9", "10", "11", "12">>

\* f"{k}" for an int k.
FormatInt(k) == DecimalStrings[k]

\* int(text) for a "_"-separated component: [int |-> k], or ValueError.
ParseInt(component) ==
    IF Len(component) = 1 /\ \E k \in DOMAIN DecimalStrings : DecimalStrings[k] = component[1]
    THEN [int |-> CHOOSE k \in DOMAIN DecimalStrings : DecimalStrings[k] = component[1]]
    ELSE Raised("ValueError")

\* path.stem: the name without its last suffix.
Stem(name) ==
    LET n == Len(name.parts)
    IN  IF Len(name.parts[n]) >= 2
        THEN Str([name.parts EXCEPT ![n] = SubSeq(name.parts[n], 1, Len(name.parts[n]) - 1)])
        ELSE name

\* fnmatch(name, "*.txt")
EndsWithTxt(name) ==
    LET last == name.parts[Len(name.parts)]
    IN  Len(last) >= 2 /\ last[Len(last)] = "txt"

(***************************************************************************)
(* The manifest builder, pre_download_processing.py.                       *)
(***************************************************************************)
\* urlsplit(url).path.split("/")[3:8] joined under path_to_data_folder; the
\* path of a url is held without the empty component before its first "/".
generate_file_path_matching_datavault_structure(path_to_data_folder, file_name, datavault_download_url) ==
    LET datavault_path == datavault_download_url.path
        last == IF Len(datavault_path) < 7 THEN Len(datavault_path) ELSE 7
        relevant_path_components == SubSeq(datavault_path, 3, last)
    IN  [parent |-> path_to_data_folder \o relevant_path_components,
         name |-> file_name]

process_raw_download_info(raw_download_info, path_to_data_folder, partition_size) ==
    [file_name |-> raw_download_info.file_name,
     download_url |-> raw_download_info.download_url,
     file_path |-> generate_file_path_matching_datavault_structure(
                        path_to_data_folder, raw_download_info.file_name,
                        raw_download_info.download_url),
     size |-> raw_download_info.size,
     md5sum |-> raw_download_info.md5sum,
     is_partitioned |-> check_if_partitioned(raw_download_info.size, partition_size)]

process_all_discovered_files_info(discovered, path_to_data_directory, partition_size) ==
    [i \in 1..Len(discovered) |->
        process_raw_download_info(discovered[i], path_to_data_directory, partition_size)]

\* f"{base_url}?{urlencode({'start': s, 'end': e})}"
create_partition_download_url(whole_file_download_url, extremities) ==
    [whole_file_download_url EXCEPT
        !.query = << <<"start", extremities.start>>, <<"end", extremities.end>> >>]

\* The index is put before all the suffixes of the file: <stem>_<k>.txt.bz2.
generate_path_to_file_partition_keeping_suffixes(path_to_whole_file, partition_index) ==
    LET parts == path_to_whole_file.name.parts
        n == Len(parts)
    IN  [parent |-> path_to_whole_file.parent,
         name |-> Str([i \in 1..(n + 1) |->
                        IF i < n THEN parts[i]
                        ELSE IF i = n THEN <<parts[n][1]>>
                        ELSE <<FormatInt(partition_index + 1)>> \o Tail(parts[n])])]

\* parent / f"{stem.split('.')[0]}_{partition_index + 1}{suffixes[0]}"
generate_path_to_file_partition(path_to_whole_file, partition_index) ==
    LET parts == path_to_whole_file.name.parts
        n == Len(parts)
    IN  [parent |-> path_to_whole_file.parent,
         name |-> Str([i \in 1..(n + 1) |->
                        IF i < n THEN parts[i]
                        ELSE IF i = n THEN <<parts[n][1]>>
                        ELSE <<FormatInt(partition_index + 1), parts[n][2]>>])]

create_list_of_file_specific_partition_download_info(file_specific_download_info, partition_size) ==
    LET file_partitions == calculate_list_of_partition_extremities(
                                file_specific_download_info.size, partition_size)
    IN  [i \in 1..Len(file_partitions) |->
            [parent_file_name |-> file_specific_download_info.file_name,
             download_url |-> create_partition_download_url(
                                file_specific_download_info.download_url,
                                file_partitions[i]),
             file_path |-> generate_path_to_file_partition(
                                file_specific_download_info.file_path, i - 1)]]

\* The loop without its test: a partitioned file is emitted as a whole file
\* too, before its partitions.
RECURSIVE manifest_keeping_partitioned_files(_, _)
manifest_keeping_partitioned_files(whole_files_download_info, partition_size) ==
    IF whole_files_download_info = <<>>
    THEN <<>>
    ELSE LET file_specific_download_info == Head(whole_files_download_info)
             rest == manifest_keeping_partitioned_files(
                        Tail(whole_files_download_info), partition_size)
         IN  IF file_specific_download_info.is_partitioned = FALSE
             THEN <<file_specific_download_info>> \o rest
             ELSE <<file_specific_download_info>>
                    \o create_list_of_file_specific_partition_download_info(
                            file_specific_download_info, partition_size)
                    \o rest

RECURSIVE generate_whole_files_and_partitions_download_manifest(_, _)
generate_whole_files_and_partitions_download_manifest(whole_files_download_info, partition_size) ==
    IF whole_files_download_info = <<>>
    THEN <<>>
    ELSE LET file_specific_download_info == Head(whole_files_download_info)
             rest == generate_whole_files_and_partitions_download_manifest(
                        Tail(whole_files_download_info), partition_size)
         IN  IF file_specific_download_info.is_partitioned = FALSE
             THEN <<file_specific_download_info>> \o rest
             ELSE create_list_of_file_specific_partition_download_info(
                        file_specific_download_info, partition_size) \o rest

(***************************************************************************)
(* The reconciliation engine, post_download_processing.py.  The functions  *)
(* that read the disk take the filesystem as an argument, and those that   *)
(* iterate over a Python set take the order of the iteration.              *)
(***************************************************************************)
\* type(file) is PartitionDownloadDetails
IsPartitionDownloadDetails(file) == "parent_file_name" \in DOMAIN file

\* The orders in which a set may be iterated: each element once.
OrdersOf(set) ==
    {order \in [1..Cardinality(set) -> set] :
        \A i, j \in 1..Cardinality(set) : i # j => order[i] # order[j]}

ToSet(list) == {list[i] : i \in 1..Len(list)}

RECURSIVE Flatten(_)
Flatten(lists) ==
    IF lists = <<>> THEN <<>> ELSE Head(lists) \o Flatten(Tail(lists))

get_non_partitioned_files(whole_files_reference_data) ==
    SelectSeq(whole_files_reference_data, LAMBDA file : file.is_partitioned = FALSE)

\* list(set(...).difference(set(...))): a set, iterated in no fixed order.
get_partitioned_files(whole_files_reference_data) ==
    ToSet(whole_files_reference_data)
        \ ToSet(get_non_partitioned_files(whole_files_reference_data))

get_partitions_download_details(concurrent_download_manifest, file_name) ==
    SelectSeq(concurrent_download_manifest,
              LAMBDA file : /\ IsPartitionDownloadDetails(file)
                            /\ file.parent_file_name = file_name)

\* int(x.stem.split("_")[3]), the sort key of get_downloaded_partitions.
partition_sort_key(path) ==
    LET components == Stem(path.name).parts
    IN  IF Len(components) < 4 THEN Raised("IndexError")
        ELSE ParseInt(components[4])

\* path_to_folder.glob("*.txt")
glob_txt(files, path_to_folder) ==
    {path \in DOMAIN files : path.parent = path_to_folder /\ EndsWithTxt(path.name)}

\* The lists that hold the paths of found once each, ascending by key[path];
\* list.sort is stable and glob yields the paths in no fixed order, so paths
\* of equal key come in any order.
RECURSIVE sorted_by_key(_, _)
sorted_by_key(found, key) ==
    IF found = {} THEN {<<>>}
    ELSE LET least == {path \in found : \A other \in found : key[path] <= key[other]}
         IN  UNION {{<<path>> \o rest : rest \in sorted_by_key(found \ {path}, key)} :
                    path \in least}

\* get_downloaded_partitions raises: the sort key of a found path does.
get_downloaded_partitions_raises(files, path_to_folder) ==
    \E path \in glob_txt(files, path_to_folder) : IsRaised(partition_sort_key(path))

\* The lists get_downloaded_partitions may return when it does not raise.
get_downloaded_partitions(files, path_to_folder) ==
    LET downloaded_partitions == glob_txt(files, path_to_folder)
    IN  sorted_by_key(downloaded_partitions,
                      [path \in downloaded_partitions |-> partition_sort_key(path).int])

\* Every expected partition is reported, whatever is on disk.
all_expected_partitions(files, file_specific_download_details, concurrent_download_manifest) ==
    [raised |-> FALSE,
     missing |-> get_partitions_download_details(
                    concurrent_download_manifest,
                    file_specific_download_details.file_name)]

\* [raised |-> ..., missing |-> the list returned]; a path is in the list
\* get_downloaded_partitions returns exactly when glob finds it.
get_file_specific_missing_partitions(files, file_specific_download_details, concurrent_download_manifest) ==
    LET expected_partitions == get_partitions_download_details(
                                    concurrent_download_manifest,
                                    file_specific_download_details.file_name)
    IN  IF /\ expected_partitions # <<>>
           /\ get_downloaded_partitions_raises(
                    files, file_specific_download_details.file_path.parent)
        THEN [raised |-> TRUE, missing |-> <<>>]
        ELSE [raised |-> FALSE,
              missing |->
                LET found == glob_txt(
                                files, file_specific_download_details.file_path.parent)
                IN  SelectSeq(expected_partitions,
                              LAMBDA partition : partition.file_path \notin found)]

\* partitioned_files: the list(set) of get_partitioned_files as iterated.
get_all_missing_partitions(files, partitioned_files, concurrent_download_manifest) ==
    LET per_file == [i \in 1..Len(partitioned_files) |->
                        get_file_specific_missing_partitions(
                            files, partitioned_files[i], concurrent_download_manifest)]
    IN  IF \E i \in 1..Len(per_file) : per_file[i].raised
        THEN [raised |-> TRUE, missing |-> <<>>]
        ELSE [raised |-> FALSE,
              missing |-> Flatten([i \in 1..Len(per_file) |-> per_file[i].missing])]

get_files_with_missing_partitions(whole_files_reference_data, missing_partitions) ==
    LET unique_file_names == {missing_partitions[i].parent_file_name :
                                i \in 1..Len(missing_partitions)}
    IN  SelectSeq(whole_files_reference_data,
                  LAMBDA file : file.file_name \in unique_file_names)

\* A set, iterated in no fixed order.
get_files_ready_for_concatenation(whole_files_reference_data, files_with_missing_partitions) ==
    get_partitioned_files(whole_files_reference_data)
        \ ToSet(files_with_missing_partitions)

\* The files without one path.
Unlink(files, path) == [p \in DOMAIN files \ {path} |-> files[p]]

\* The copy loop: each partition file is appended to the output and deleted.
RECURSIVE copy_and_unlink(_, _, _)
copy_and_unlink(files, path_to_output_file, available_partition_files) ==
    IF available_partition_files = <<>> THEN files
    ELSE LET file_path == Head(available_partition_files)
             appended == [files EXCEPT ![path_to_output_file] = @ \o files[file_path]]
         IN  copy_and_unlink(Unlink(appended, file_path), path_to_output_file,
                             Tail(available_partition_files))

\* available_partition_files: the list get_downloaded_partitions returned for
\* the parent directory; open("wb") creates or truncates the output.
concatenate_partitions(files, path_to_output_file, available_partition_files) ==
    copy_and_unlink((path_to_output_file :> <<>>) @@ files, path_to_output_file,
                    available_partition_files)

\* The filesystems the loop over files_to_concatenate may leave.
RECURSIVE concatenate_each_file_partitions(_, _)
concatenate_each_file_partitions(files, files_to_concatenate) ==
    IF files_to_concatenate = <<>> THEN {files}
    ELSE LET file == Head(files_to_concatenate)
         IN  UNION {concatenate_each_file_partitions(
                        concatenate_partitions(files, file.file_path, available),
                        Tail(files_to_concatenate)) :
                    available \in get_downloaded_partitions(
                                        files, file.file_path.parent)}

\* set(whole_files_reference_data).difference(set(files_with_missing_partitions))
get_files_ready_for_integrity_test(files_with_missing_partitions, whole_files_reference_data) ==
    ToSet(whole_files_reference_data) \ ToSet(files_with_missing_partitions)

\* The body is "pass": nothing is added, the manifest stays as it was.
update_failed_download_manifest(failed_download_manifest, failed_files, failed_partitions) ==
    failed_download_manifest

\* The files with missing partitions are queued as work items too.
pre_concatenation_processing_requeueing_whole_files(files, whole_files_reference, concurrent_download_manifest, partitioned_files) ==
    LET missing_partitions == get_all_missing_partitions(
                                files, partitioned_files, concurrent_download_manifest)
        files_with_missing_partitions ==
            get_files_with_missing_partitions(whole_files_reference,
                                              missing_partitions.missing)
    IN  IF missing_partitions.raised
        THEN Raised("IndexError or ValueError")
        ELSE [whole_files_reference |-> files_with_missing_partitions,
              concurrent_download_manifest |->
                files_with_missing_partitions \o missing_partitions.missing]

\* partitioned_files: the list(set) of get_partitioned_files as iterated.
pre_concatenation_processing(files, whole_files_reference, concurrent_download_manifest, partitioned_files) ==
    LET missing_partitions == get_all_missing_partitions(
                                files, partitioned_files, concurrent_download_manifest)
    IN  IF missing_partitions.raised
        THEN Raised("IndexError or ValueError")
        ELSE [whole_files_reference |->
                get_files_with_missing_partitions(whole_files_reference,
                                                  missing_partitions.missing),
              concurrent_download_manifest |-> missing_partitions.missing]

(***************************************************************************)
(* Inputs of the pipeline.                                                 *)
(***************************************************************************)
\* The crawl hands over at most MaxDiscovered files.
MaxDiscovered == 2
\* At most MaxFailedDownloads work items of an attempt fail.
MaxFailedDownloads == 1

\* data_directory of the command line.
path_to_data_folder == <<"Data">>

\* A second account's watchlist for the same source and day.
WatchlistOtherAccountFileNode ==
    [name |-> Str(<< <<"WATCHLIST">>, <<"asmith">>, <<"367">>,
                     <<"20200716", "txt", "bz2">> >>),
     url |-> <<"v2", "data", "2020", "07", "16", "S367", "WATCHLIST",
               "20200716-S367_WATCHLIST_asmith_0_0">>,
     size |-> 3, md5sum |-> "11a5b2ed1ca0e2cd0b9a1d2f5a1b8a7e", directory |-> FALSE]

\* A second file served from the directory of CorerefFileNode.
CrossrefFileNode ==
    [name |-> Str(<< <<"CROSSREF">>, <<"207">>, <<"20200716", "txt", "bz2">> >>),
     url |-> <<"v2", "data", "2020", "07", "16", "S207", "COREREF",
               "20200716-S207_CROSSREF_0_0">>,
     size |-> 6, md5sum |-> "0dd1c2ae4fd7b6e1a5f0a8f3cf6e6e3b", directory |-> FALSE]

DiscoverableFileNodes ==
    FileNodes \cup {WatchlistOtherAccountFileNode, CrossrefFileNode}

\* The results of a crawl over a proper tree: each file node found once.
DiscoveredLists ==
    UNION {{[i \in 1..n |-> create_discovered_file_object(nodes[i])] :
                nodes \in {s \in [1..n -> DiscoverableFileNodes] :
                            \A i, j \in 1..n : i # j => s[i] # s[j]}} :
           n \in 0..MaxDiscovered}

\* Partition sizes of one byte and of two bytes.
PipelinePartitionSizes == {PartitionSizeUnitsPerByte, 2 * PartitionSizeUnitsPerByte}

\* The remote file of a node: its byte at offset i is held as
\* [file |-> <url path of the node>, offset |-> i].
RemoteBytes(file_node) ==
    [i \in 1..file_node.size |-> [file |-> file_node.url, offset |-> i - 1]]

\* The remote files by the url path at which the API serves them.
RemoteFiles ==
    [path \in {create_node_url(node.url).path : node \in DiscoverableFileNodes} |->
        RemoteBytes(CHOOSE node \in DiscoverableFileNodes :
                        create_node_url(node.url).path = path)]

Min(a, b) == IF a < b THEN a ELSE b

\* What a request for download_url stores: the whole remote file, or for a
\* partition url the bytes start..end of it, both included, as far as the
\* file reaches.
ContentOf(download_url) ==
    LET bytes == RemoteFiles[download_url.path]
    IN  IF download_url.query = <<>> THEN bytes
        ELSE SubSeq(bytes, download_url.query[1][2] + 1,
                    Min(download_url.query[2][2] + 1, Len(bytes)))

\* A partition file left in the watchlist directory by an earlier run with
\* other ranges; it holds the last byte of the watchlist.
StalePartition ==
    LET whole == process_raw_download_info(
                    create_discovered_file_object(WatchlistFileNode),
                    path_to_data_folder, PartitionSizeUnitsPerByte)
    IN  [file_path |-> generate_path_to_file_partition(
                            whole.file_path, Len(DecimalStrings) - 1),
         download_url |-> create_partition_download_url(
                            whole.download_url, [start |-> 3, end |-> 3])]

\* The data directory at the start: empty, or holding the stale partition.
StartingFilesystems ==
    {<<>>, StalePartition.file_path :> ContentOf(StalePartition.download_url)}

\* The subsets of set with at most max elements.
RECURSIVE SubsetsUpTo(_, _)
SubsetsUpTo(set, max) ==
    IF max = 0 THEN {{}}
    ELSE SubsetsUpTo(set, max - 1)
            \cup {subset \cup {element} :
                    subset \in SubsetsUpTo(set, max - 1), element \in set}

Reverse(list) == [i \in 1..Len(list) |-> list[Len(list) + 1 - i]]

(***************************************************************************)
(* The integrity checker, data_integrity.py.  The functions that read the  *)
(* disk take the filesystem as an argument.                                *)
(***************************************************************************)
\* hashlib.md5 of no bytes, and the digest of the contents that are no
\* listed remote file.
EmptyDigest == "d41d8cd98f00b204e9800998ecf8427e"

OtherDigest == "9e107d9d372bb6826bd81d3542a419d6"

\* hashlib.md5: the bytes of a listed remote file have the digest the API
\* lists for it; any other content has a digest that no listed file has.
md5(content) ==
    IF \E node \in DiscoverableFileNodes : content = RemoteBytes(node)
    THEN (CHOOSE node \in DiscoverableFileNodes : content = RemoteBytes(node)).md5sum
    ELSE IF content = <<>> THEN EmptyDigest ELSE OtherDigest

\* path_to_file.open("rb") raises on a path that is not on disk.
calculate_checksum(files, path_to_file) ==
    IF path_to_file \notin DOMAIN files THEN Raised("FileNotFoundError")
    ELSE [hexdigest |-> md5(files[path_to_file])]

\* path_to_file.stat().st_size; stat() raises on a path that is not on disk.
check_size(files, path_to_file) ==
    IF path_to_file \notin DOMAIN files THEN Raised("FileNotFoundError")
    ELSE [int |-> Len(files[path_to_file])]

\* The test with "or" in the place of "and".
data_integrity_test_either_matches(files, file_download_details) ==
    IF IsRaised(check_size(files, file_download_details.file_path))
    THEN check_size(files, file_download_details.file_path)
    ELSE IF \/ check_size(files, file_download_details.file_path).int
                = file_download_details.size
            \/ calculate_checksum(files, file_download_details.file_path).hexdigest
                = file_download_details.md5sum
    THEN [bool |-> TRUE]
    ELSE [bool |-> FALSE]

\* [bool |-> the value returned], or the exception of check_size, which is
\* evaluated first.
data_integrity_test(files, file_download_details) ==
    IF IsRaised(check_size(files, file_download_details.file_path))
    THEN check_size(files, file_download_details.file_path)
    ELSE IF /\ check_size(files, file_download_details.file_path).int
                = file_download_details.size
            /\ calculate_checksum(files, file_download_details.file_path).hexdigest
                = file_download_details.md5sum
    THEN [bool |-> TRUE]
    ELSE [bool |-> FALSE]

(***************************************************************************)
(* SpecIntegrity: data_integrity_test and                                  *)
(* get_file_specific_missing_partitions applied to one DownloadDetails and *)
(* one state of the disk.                                                  *)
(***************************************************************************)
\* The expected sizes and digests: those of the listed files, and those of
\* an empty file.
ExpectedSizes == {node.size : node \in DiscoverableFileNodes} \cup {0}

ExpectedDigests == {node.md5sum : node \in DiscoverableFileNodes} \cup {EmptyDigest}

\* The DownloadDetails of the listed files, under every expected size and
\* digest, planned at a partition size of one byte.
TestedFiles ==
    {[process_raw_download_info(create_discovered_file_object(node),
                                path_to_data_folder, PartitionSizeUnitsPerByte)
        EXCEPT !.size = size, !.md5sum = digest,
               !.is_partitioned = check_if_partitioned(size, PartitionSizeUnitsPerByte)] :
        node \in DiscoverableFileNodes, size \in ExpectedSizes,
        digest \in ExpectedDigests}

\* The beginnings of the listed remote files, the empty and the whole one
\* included.
DiskContents ==
    UNION {{SubSeq(RemoteBytes(node), 1, n) : n \in 0..node.size} :
            node \in DiscoverableFileNodes}

\* The states of the disk for one file: nothing (the file and its directory
\* absent), the file with some content, or one of its partitions alone.
DisksFor(file) ==
    {<<>>}
        \cup {file.file_path :> content : content \in DiskContents}
        \cup {partition.file_path :> ContentOf(partition.download_url) :
                partition \in ToSet(create_list_of_file_specific_partition_download_info(
                                        file, PartitionSizeUnitsPerByte))}

InitIntegrity ==
    /\ tested_file \in TestedFiles
    /\ filesystem \in DisksFor(tested_file)
    /\ integrity_result = None
    /\ missing_result = None
    /\ integrity_pc = "input"
    /\ partition_size_in_mib = PartitionSizeUnitsPerByte
    /\ ReconciliationIdle
    /\ PlannerIdle
    /\ CrawlerIdle
    /\ NamesIdle
    /\ SessionsIdle
    /\ PartitionNamesIdle

DataIntegrityTest ==
    /\ integrity_pc = "input"
    /\ integrity_result' = data_integrity_test(filesystem, tested_file)
    /\ integrity_pc' = "tested"
    /\ UNCHANGED <<tested_file, missing_result>>
    /\ UNCHANGED <<planner_vars, partition_size_in_mib, crawler_vars, pipeline_vars,
                   names_vars, session_vars, partition_names_vars>>

\* get_file_specific_missing_partitions for the file and its planned
\* partitions.
GetFileSpecificMissingPartitions ==
    /\ integrity_pc = "input"
    /\ missing_result' = get_file_specific_missing_partitions(
            filesystem, tested_file,
            create_list_of_file_specific_partition_download_info(
                tested_file, partition_size_in_mib))
    /\ integrity_pc' = "scanned"
    /\ UNCHANGED <<tested_file, integrity_result>>
    /\ UNCHANGED <<planner_vars, partition_size_in_mib, crawler_vars, pipeline_vars,
                   names_vars, session_vars, partition_names_vars>>

NextIntegrity ==
    \/ DataIntegrityTest
    \/ GetFileSpecificMissingPartitions

SpecIntegrity == InitIntegrity /\ [][NextIntegrity]_vars

(***************************************************************************)
(* Claims about the integrity checker, checked under SpecIntegrity.        *)
(***************************************************************************)
\* C13: data_integrity_test returns true exactly when the size of the file on
\* disk equals the expected size and its checksum equals the expected
\* md5sum; a mismatch of the size alone or of the checksum alone yields
\* false.
C13_TrueExactlyWhenSizeAndChecksumMatch ==
    (integrity_pc = "tested" /\ tested_file.file_path \in DOMAIN filesystem)
    => LET content == filesystem[tested_file.file_path]
       IN  integrity_result =
            [bool |-> /\ Len(content) = tested_file.size
                      /\ md5(content) = tested_file.md5sum]

\* The file on disk has the expected size and another checksum: the test
\* returned false.
C13_Witness ==
    /\ integrity_pc = "tested"
    /\ tested_file.file_path \in DOMAIN filesystem
    /\ Len(filesystem[tested_file.file_path]) = tested_file.size
    /\ md5(filesystem[tested_file.file_path]) # tested_file.md5sum
    /\ integrity_result = [bool |-> FALSE]

\* C15: integrity and partition-completeness outcomes are result values,
\* never exceptions: for every DownloadDetails and every state of the disk
\* (target file absent, target directory absent or empty)
\* data_integrity_test returns a boolean and
\* get_file_specific_missing_partitions returns a list, a missing directory
\* counting as zero partitions found.
C15_OutcomesAreValues ==
    /\ integrity_pc = "tested" => "bool" \in DOMAIN integrity_result
    /\ integrity_pc = "scanned"
        => /\ ~missing_result.raised
           /\ filesystem = <<>>
                => missing_result.missing
                    = create_list_of_file_specific_partition_download_info(
                            tested_file, partition_size_in_mib)

(***************************************************************************)
(* SpecPipeline: plan, download, reconcile, concatenate: one attempt.      *)
(* SpecRetry: the attempts, each ended by the integrity check, repeated    *)
(* with the retry manifest until it is empty or the attempts are used up.  *)
(***************************************************************************)
\* --max-download-attempts values 1..MaxDownloadAttempts are enumerated.
MaxDownloadAttempts == 2

InitPipeline ==
    /\ discovered_files_info \in DiscoveredLists
    /\ partition_size_in_mib \in PipelinePartitionSizes
    /\ filesystem \in StartingFilesystems
    /\ max_download_attempts = 1
    /\ whole_files_download_manifest = <<>>
    /\ files_and_partitions_download_manifest = <<>>
    /\ failed_downloads_manifest = [none |-> TRUE]
    /\ download_manifest = [none |-> TRUE]
    /\ download_attempts = 0
    /\ failed_work_items = {}
    /\ files_failing_integrity = {}
    /\ pipeline_pc = "discovered"
    /\ PlannerIdle
    /\ CrawlerIdle
    /\ UnitsIdle

\* prepare_download_manifests(discovered_files_info, path_to_data_folder,
\* partition_size_in_mib); its two lists are the manifest of the first attempt.
PrepareDownloadManifests ==
    /\ pipeline_pc = "discovered"
    /\ whole_files_download_manifest' = process_all_discovered_files_info(
            discovered_files_info, path_to_data_folder, partition_size_in_mib)
    /\ files_and_partitions_download_manifest' =
            generate_whole_files_and_partitions_download_manifest(
                whole_files_download_manifest', partition_size_in_mib)
    /\ download_manifest' =
            [whole_files_reference |-> whole_files_download_manifest',
             concurrent_download_manifest |-> files_and_partitions_download_manifest']
    /\ pipeline_pc' = "planned"
    /\ UNCHANGED <<discovered_files_info, filesystem, failed_downloads_manifest,
                   download_attempts, max_download_attempts, failed_work_items,
                   files_failing_integrity>>
    /\ UNCHANGED <<planner_vars, partition_size_in_mib, crawler_vars, unit_vars>>

\* The files after the contents of completed were stored, one after the
\* other.
RECURSIVE store_downloads(_, _)
store_downloads(files, completed) ==
    IF completed = <<>> THEN files
    ELSE store_downloads(
            (Head(completed).file_path :> Head(completed).content) @@ files,
            Tail(completed))

\* A download that broke off: the content without its last byte.
Truncated(content) ==
    IF content = <<>> THEN <<>> ELSE SubSeq(content, 1, Len(content) - 1)

\* One download attempt over the work items of the manifest: every item is
\* requested once; an item that succeeds is stored at its file_path, the
\* items that fail leave nothing, or all leave a truncated file.  At most
\* MaxFailedDownloads items fail, or all of them do.  The workers finish in
\* manifest order or in the reverse order, which decides the content of a
\* path that two items share (and nothing else, so that only one order is
\* taken when no two items share a path).
DownloadFilesConcurrently ==
    /\ pipeline_pc = "planned"
    /\ download_attempts < max_download_attempts
    /\ LET work_items == download_manifest.concurrent_download_manifest
           orders == IF \E i, j \in 1..Len(work_items) :
                            i # j /\ work_items[i].file_path = work_items[j].file_path
                     THEN BOOLEAN ELSE {FALSE}
       IN  \E failed \in SubsetsUpTo(1..Len(work_items), MaxFailedDownloads)
                            \cup {1..Len(work_items)} :
            \E in_reverse \in orders,
               truncated \in (IF failed = {} THEN {FALSE} ELSE BOOLEAN) :
                LET stored == SelectSeq(
                        [i \in 1..Len(work_items) |->
                            [index |-> i,
                             file_path |-> work_items[i].file_path,
                             content |->
                                IF i \in failed
                                THEN Truncated(ContentOf(work_items[i].download_url))
                                ELSE ContentOf(work_items[i].download_url)]],
                        LAMBDA item : item.index \notin failed \/ truncated)
                IN  /\ filesystem' = store_downloads(
                            filesystem, IF in_reverse THEN Reverse(stored) ELSE stored)
                    /\ failed_work_items' = failed
    /\ download_attempts' = download_attempts + 1
    /\ pipeline_pc' = "downloaded"
    /\ UNCHANGED <<discovered_files_info, whole_files_download_manifest,
                   files_and_partitions_download_manifest, failed_downloads_manifest,
                   download_manifest, max_download_attempts, files_failing_integrity>>
    /\ UNCHANGED <<planner_vars, partition_size_in_mib, crawler_vars, unit_vars>>

\* pre_concatenation_processing(download_manifest), after a download attempt.
PreConcatenationProcessing ==
    /\ pipeline_pc = "downloaded"
    /\ \E partitioned_files \in
            OrdersOf(get_partitioned_files(download_manifest.whole_files_reference)) :
        LET result == pre_concatenation_processing(
                        filesystem, download_manifest.whole_files_reference,
                        download_manifest.concurrent_download_manifest,
                        partitioned_files)
        IN  IF IsRaised(result)
            THEN /\ pipeline_pc' = "raised"
                 /\ UNCHANGED failed_downloads_manifest
            ELSE /\ pipeline_pc' = "reconciled"
                 /\ failed_downloads_manifest' = result
    /\ UNCHANGED <<discovered_files_info, whole_files_download_manifest,
                   files_and_partitions_download_manifest, filesystem,
                   download_manifest, download_attempts, max_download_attempts,
                   failed_work_items, files_failing_integrity>>
    /\ UNCHANGED <<planner_vars, partition_size_in_mib, crawler_vars, unit_vars>>

\* concatenation_processing(download_manifest, failed_downloads_manifest).
\* No sort key raises here: pre_concatenation_processing has listed the
\* directory of every partitioned file on the same filesystem.
ConcatenationProcessing ==
    /\ pipeline_pc = "reconciled"
    /\ \E files_ready_for_concatenation \in
            OrdersOf(get_files_ready_for_concatenation(
                download_manifest.whole_files_reference,
                failed_downloads_manifest.whole_files_reference)) :
        filesystem' \in concatenate_each_file_partitions(
                            filesystem, files_ready_for_concatenation)
    /\ pipeline_pc' = "concatenated"
    /\ UNCHANGED <<discovered_files_info, whole_files_download_manifest,
                   files_and_partitions_download_manifest, failed_downloads_manifest,
                   download_manifest, download_attempts, max_download_attempts,
                   failed_work_items, files_failing_integrity>>
    /\ UNCHANGED <<planner_vars, partition_size_in_mib, crawler_vars, unit_vars>>

\* The integrity re-check: every file ready for testing is passed through
\* data_integrity_test, and the files that fail it are handed, with all
\* their partitions, to update_failed_download_manifest.
IntegrityRecheck ==
    /\ pipeline_pc = "concatenated"
    /\ LET files_ready == get_files_ready_for_integrity_test(
                            failed_downloads_manifest.whole_files_reference,
                            download_manifest.whole_files_reference)
           outcome == [file \in files_ready |-> data_integrity_test(filesystem, file)]
           failing == {file \in files_ready :
                         ~IsRaised(outcome[file]) /\ ~outcome[file].bool}
       IN  IF \E file \in files_ready : IsRaised(outcome[file])
           THEN /\ pipeline_pc' = "raised"
                /\ UNCHANGED <<failed_downloads_manifest, files_failing_integrity>>
           ELSE /\ pipeline_pc' = "checked"
                /\ files_failing_integrity' = failing
                /\ failed_downloads_manifest' = update_failed_download_manifest(
                        failed_downloads_manifest,
                        {file \in failing : ~file.is_partitioned},
                        UNION {ToSet(create_list_of_file_specific_partition_download_info(
                                        file, partition_size_in_mib)) :
                                file \in {f \in failing : f.is_partitioned}})
    /\ UNCHANGED <<discovered_files_info, whole_files_download_manifest,
                   files_and_partitions_download_manifest, filesystem,
                   download_manifest, download_attempts, max_download_attempts,
                   failed_work_items>>
    /\ UNCHANGED <<planner_vars, partition_size_in_mib, crawler_vars, unit_vars>>

\* The retry manifest holds nothing to download.
IsEmptyManifest(manifest) ==
    /\ manifest.whole_files_reference = <<>>
    /\ manifest.concurrent_download_manifest = <<>>

\* The loop ends: the reconciliation returned an empty retry manifest.
ReportSuccess ==
    /\ pipeline_pc = "checked"
    /\ IsEmptyManifest(failed_downloads_manifest)
    /\ pipeline_pc' = "succeeded"
    /\ UNCHANGED <<discovered_files_info, whole_files_download_manifest,
                   files_and_partitions_download_manifest, filesystem,
                   failed_downloads_manifest, download_manifest, download_attempts,
                   max_download_attempts, failed_work_items, files_failing_integrity>>
    /\ UNCHANGED <<planner_vars, partition_size_in_mib, crawler_vars, unit_vars>>

\* The loop goes on: the retry manifest is the manifest of the next attempt.
RetryFailedDownloads ==
    /\ pipeline_pc = "checked"
    /\ ~IsEmptyManifest(failed_downloads_manifest)
    /\ download_attempts < max_download_attempts
    /\ download_manifest' = failed_downloads_manifest
    /\ pipeline_pc' = "planned"
    /\ UNCHANGED <<discovered_files_info, whole_files_download_manifest,
                   files_and_partitions_download_manifest, filesystem,
                   failed_downloads_manifest, download_attempts,
                   max_download_attempts, failed_work_items, files_failing_integrity>>
    /\ UNCHANGED <<planner_vars, partition_size_in_mib, crawler_vars, unit_vars>>

\* A loop that ends normally whatever the last reconciliation returned.
ReportUsedUpAttemptsAsSuccess ==
    /\ pipeline_pc = "checked"
    /\ ~IsEmptyManifest(failed_downloads_manifest)
    /\ download_attempts >= max_download_attempts
    /\ pipeline_pc' = "succeeded"
    /\ UNCHANGED <<discovered_files_info, whole_files_download_manifest,
                   files_and_partitions_download_manifest, filesystem,
                   failed_downloads_manifest, download_manifest, download_attempts,
                   max_download_attempts, failed_work_items, files_failing_integrity>>
    /\ UNCHANGED <<planner_vars, partition_size_in_mib, crawler_vars, unit_vars>>

\* The loop ends: the attempts are used up and the retry manifest is not
\* empty, which is reported as a hard failure.
ReportHardFailure ==
    /\ pipeline_pc = "checked"
    /\ ~IsEmptyManifest(failed_downloads_manifest)
    /\ download_attempts >= max_download_attempts
    /\ pipeline_pc' = "failed"
    /\ UNCHANGED <<discovered_files_info, whole_files_download_manifest,
                   files_and_partitions_download_manifest, filesystem,
                   failed_downloads_manifest, download_manifest, download_attempts,
                   max_download_attempts, failed_work_items, files_failing_integrity>>
    /\ UNCHANGED <<planner_vars, partition_size_in_mib, crawler_vars, unit_vars>>

NextPipeline ==
    \/ PrepareDownloadManifests
    \/ DownloadFilesConcurrently
    \/ PreConcatenationProcessing
    \/ ConcatenationProcessing

SpecPipeline == InitPipeline /\ [][NextPipeline]_vars

\* The crawls of the repeated runs: one listed file; the watchlists of two
\* accounts; two files served from one directory; two files of two
\* directories.
RetriedLists ==
    {<<create_discovered_file_object(node)>> : node \in DiscoverableFileNodes}
        \cup {<<create_discovered_file_object(pair[1]),
                 create_discovered_file_object(pair[2])>> :
                pair \in {<<WatchlistFileNode, WatchlistOtherAccountFileNode>>,
                          <<CorerefFileNode, CrossrefFileNode>>,
                          <<WatchlistFileNode, CorerefFileNode>>}}

InitRetry ==
    /\ discovered_files_info \in RetriedLists
    /\ partition_size_in_mib \in PipelinePartitionSizes
    /\ filesystem \in StartingFilesystems
    /\ max_download_attempts \in 1..MaxDownloadAttempts
    /\ whole_files_download_manifest = <<>>
    /\ files_and_partitions_download_manifest = <<>>
    /\ failed_downloads_manifest = [none |-> TRUE]
    /\ download_manifest = [none |-> TRUE]
    /\ download_attempts = 0
    /\ failed_work_items = {}
    /\ files_failing_integrity = {}
    /\ pipeline_pc = "discovered"
    /\ PlannerIdle
    /\ CrawlerIdle
    /\ UnitsIdle

NextRetry ==
    \/ PrepareDownloadManifests
    \/ DownloadFilesConcurrently
    \/ PreConcatenationProcessing
    \/ ConcatenationProcessing
    \/ IntegrityRecheck
    \/ ReportSuccess
    \/ RetryFailedDownloads
    \/ ReportHardFailure

SpecRetry == InitRetry /\ [][NextRetry]_vars

\* pre_concatenation_processing(download_manifest) called a second time on the
\* same manifest, after concatenation_processing and with no download in
\* between.
PreConcatenationProcessingAgain ==
    /\ pipeline_pc = "concatenated"
    /\ \E partitioned_files \in
            OrdersOf(get_partitioned_files(download_manifest.whole_files_reference)) :
        LET result == pre_concatenation_processing(
                        filesystem, download_manifest.whole_files_reference,
                        download_manifest.concurrent_download_manifest,
                        partitioned_files)
        IN  IF IsRaised(result)
            THEN /\ pipeline_pc' = "raised"
                 /\ UNCHANGED failed_downloads_manifest
            ELSE /\ pipeline_pc' = "reconciled_again"
                 /\ failed_downloads_manifest' = result
    /\ UNCHANGED <<discovered_files_info, whole_files_download_manifest,
                   files_and_partitions_download_manifest, filesystem,
                   download_manifest, download_attempts, max_download_attempts,
                   failed_work_items, files_failing_integrity>>
    /\ UNCHANGED <<planner_vars, partition_size_in_mib, crawler_vars, unit_vars>>

\* concatenation_processing(download_manifest, failed_downloads_manifest)
\* called with the result of the second pre_concatenation_processing.
ConcatenationProcessingAgain ==
    /\ pipeline_pc = "reconciled_again"
    /\ \E files_ready_for_concatenation \in
            OrdersOf(get_files_ready_for_concatenation(
                download_manifest.whole_files_reference,
                failed_downloads_manifest.whole_files_reference)) :
        filesystem' \in concatenate_each_file_partitions(
                            filesystem, files_ready_for_concatenation)
    /\ pipeline_pc' = "concatenated_again"
    /\ UNCHANGED <<discovered_files_info, whole_files_download_manifest,
                   files_and_partitions_download_manifest, failed_downloads_manifest,
                   download_manifest, download_attempts, max_download_attempts,
                   failed_work_items, files_failing_integrity>>
    /\ UNCHANGED <<planner_vars, partition_size_in_mib, crawler_vars, unit_vars>>

\* One download attempt followed by two reconciliations.
InitReconcileTwice ==
    /\ InitRetry
    /\ max_download_attempts = 1

NextReconcileTwice ==
    \/ PrepareDownloadManifests
    \/ DownloadFilesConcurrently
    \/ PreConcatenationProcessing
    \/ ConcatenationProcessing
    \/ PreConcatenationProcessingAgain
    \/ ConcatenationProcessingAgain

SpecReconcileTwice == InitReconcileTwice /\ [][NextReconcileTwice]_vars

(***************************************************************************)
(* Claims about the manifests and the reconciliation, checked under        *)
(* SpecPipeline.                                                           *)
(***************************************************************************)
\* The manifests have been returned by prepare_download_manifests.
ManifestsPrepared ==
    pipeline_pc \notin {"idle", "discovered"}

\* floor(S / B) ranges, and one more when S mod B # 0.
NumberOfPartitions(file) ==
    (file.size \div PartitionSizeInBytes)
        + (IF file.size % PartitionSizeInBytes # 0 THEN 1 ELSE 0)

\* The positions of the work-item list that hold partitions of file_name.
PartitionsNamed(file_name) ==
    {j \in 1..Len(files_and_partitions_download_manifest) :
        /\ IsPartitionDownloadDetails(files_and_partitions_download_manifest[j])
        /\ files_and_partitions_download_manifest[j].parent_file_name = file_name}

\* The positions of the whole-file list that hold file_name.
WholeFilesNamed(file_name) ==
    {i \in 1..Len(whole_files_download_manifest) :
        whole_files_download_manifest[i].file_name = file_name}

\* C4: in the manifests returned by prepare_download_manifests for any list of
\* discovered files, every whole-file entry with is_partitioned = true has at
\* least 2 partition entries carrying its file name as parent_file_name, and
\* the parent_file_name of every partition entry matches exactly one
\* whole-file entry.
C4_PartitionsResolveToOneWholeFile ==
    ManifestsPrepared
    => /\ \A i \in 1..Len(whole_files_download_manifest) :
            whole_files_download_manifest[i].is_partitioned
            => Cardinality(PartitionsNamed(whole_files_download_manifest[i].file_name)) >= 2
       /\ \A j \in 1..Len(files_and_partitions_download_manifest) :
            IsPartitionDownloadDetails(files_and_partitions_download_manifest[j])
            => Cardinality(WholeFilesNamed(
                    files_and_partitions_download_manifest[j].parent_file_name)) = 1

\* The number of work items emitted for one whole-file entry.
SegmentLength(file) ==
    IF file.is_partitioned THEN NumberOfPartitions(file) ELSE 1

\* The number of work items emitted for the whole-file entries before the i-th.
RECURSIVE SegmentOffset(_)
SegmentOffset(i) ==
    IF i = 1 THEN 0
    ELSE SegmentOffset(i - 1) + SegmentLength(whole_files_download_manifest[i - 1])

\* C5: generate_whole_files_and_partitions_download_manifest emits, in the
\* order of the whole-file list, each non-partitioned file once as its
\* DownloadDetails and each partitioned file as its N partition entries in
\* ascending partition index (1..N, as the index reads in the partition's file
\* name, each with the k-th byte range); no DownloadDetails of a partitioned
\* file is in the work-item list.
C5_WorkItemsFollowTheWholeFiles ==
    ManifestsPrepared
    => /\ Len(files_and_partitions_download_manifest)
            = SegmentOffset(Len(whole_files_download_manifest) + 1)
       /\ \A i \in 1..Len(whole_files_download_manifest) :
            LET file == whole_files_download_manifest[i]
            IN  IF ~file.is_partitioned
                THEN files_and_partitions_download_manifest[SegmentOffset(i) + 1] = file
                ELSE \A k \in 1..NumberOfPartitions(file) :
                        LET entry == files_and_partitions_download_manifest[
                                        SegmentOffset(i) + k]
                        IN  /\ IsPartitionDownloadDetails(entry)
                            /\ entry.parent_file_name = file.file_name
                            /\ entry.file_path.parent = file.file_path.parent
                            /\ partition_sort_key(entry.file_path) = [int |-> k]
                            /\ entry.download_url.path = file.download_url.path
                            /\ entry.download_url.query[1][2]
                                = (IF k = 1 THEN 0 ELSE (k - 1) * PartitionSizeInBytes + 1)
                            /\ entry.download_url.query[2][2]
                                = (IF k * PartitionSizeInBytes < file.size
                                   THEN k * PartitionSizeInBytes ELSE file.size)
       /\ \A j \in 1..Len(files_and_partitions_download_manifest) :
            ~IsPartitionDownloadDetails(files_and_partitions_download_manifest[j])
            => ~files_and_partitions_download_manifest[j].is_partitioned

\* The manifests of a non-partitioned file followed by a partitioned one;
\* the work-item list holds the first and the three partitions of the second.
C5_Witness ==
    /\ pipeline_pc = "planned"
    /\ Len(whole_files_download_manifest) = 2
    /\ ~whole_files_download_manifest[1].is_partitioned
    /\ whole_files_download_manifest[2].is_partitioned
    /\ Len(files_and_partitions_download_manifest) = 4
    /\ files_and_partitions_download_manifest[1] = whole_files_download_manifest[1]

\* The expected partitions, by the manifest, whose path is not on disk.
AbsentPartitions ==
    {partition \in ToSet(download_manifest.concurrent_download_manifest) :
        /\ IsPartitionDownloadDetails(partition)
        /\ partition.file_path \notin DOMAIN filesystem}

\* A whole-file entry owns the partitions that carry its file name.
OwnsAnAbsentPartition(file) ==
    \E partition \in AbsentPartitions : partition.parent_file_name = file.file_name

\* C6: for the manifest of any attempt and any state of the disk,
\* get_all_missing_partitions returns exactly the expected partitions whose
\* local path is not on disk (as a set: none present is reported, none absent
\* is omitted; each once when the file names of the manifest are distinct),
\* and get_files_with_missing_partitions returns exactly the whole-file
\* entries that own one of them, in the order of the whole-file list; with no
\* partition file on disk every partition is reported.
C6_MissingPartitionsAreExact ==
    pipeline_pc = "reconciled"
    => LET missing == failed_downloads_manifest.concurrent_download_manifest
           files == failed_downloads_manifest.whole_files_reference
       IN  /\ ToSet(missing) = AbsentPartitions
           /\ (\A i \in 1..Len(whole_files_download_manifest) :
                    Cardinality(WholeFilesNamed(
                        whole_files_download_manifest[i].file_name)) = 1)
                => \A m, n \in 1..Len(missing) : m # n => missing[m] # missing[n]
           /\ files = SelectSeq(download_manifest.whole_files_reference,
                                 OwnsAnAbsentPartition)
           /\ (\A path \in DOMAIN filesystem : ~EndsWithTxt(path.name))
                => ToSet(missing)
                    = {partition \in ToSet(download_manifest.concurrent_download_manifest) :
                        IsPartitionDownloadDetails(partition)}

\* Two partitioned files were downloaded, one partition of one of them failed:
\* it is the one missing partition, and its file the one file reported.
C6_Witness ==
    /\ pipeline_pc = "reconciled"
    /\ Len(whole_files_download_manifest) = 2
    /\ \A i \in 1..2 : whole_files_download_manifest[i].is_partitioned
    /\ whole_files_download_manifest[1].file_name # whole_files_download_manifest[2].file_name
    /\ Len(failed_downloads_manifest.concurrent_download_manifest) = 1
    /\ Len(failed_downloads_manifest.whole_files_reference) = 1
    /\ Cardinality(DOMAIN filesystem) >= 6

\* The path of the k-th partition of a whole-file entry.
PartitionPath(file, k) == generate_path_to_file_partition(file.file_path, k - 1)

\* Partitions 1..N of the file are all on disk.
AllPartitionsPresent(file) ==
    \A k \in 1..NumberOfPartitions(file) : PartitionPath(file, k) \in DOMAIN filesystem

\* C7: concatenate_partitions appends the partitions on disk in ascending
\* numeric index, so when partitions 1..N of a file are all present the
\* content of the output file is the concatenation of the contents of
\* partition 1, 2, ..., N.
C7_OutputIsTheFilesPartitionsInOrder ==
    [][(pipeline_pc = "reconciled" /\ pipeline_pc' = "concatenated")
        => \A i \in 1..Len(download_manifest.whole_files_reference) :
            LET file == download_manifest.whole_files_reference[i]
            IN  (file.is_partitioned /\ AllPartitionsPresent(file))
                => /\ file.file_path \in DOMAIN filesystem'
                   /\ filesystem'[file.file_path]
                        = Flatten([k \in 1..NumberOfPartitions(file) |->
                                    filesystem[PartitionPath(file, k)]])]_vars

\* The step leaves the path as it was: absent, or with the same content.
Untouched(path) ==
    /\ path \in DOMAIN filesystem <=> path \in DOMAIN filesystem'
    /\ path \in DOMAIN filesystem => filesystem'[path] = filesystem[path]

\* The step is a run of concatenation_processing.
ConcatenationStep ==
    /\ pipeline_pc = "reconciled"
    /\ pipeline_pc' = "concatenated"

\* C28: concatenation_processing changes the filesystem only for
\* concatenation-ready files: for each partitioned file with no missing
\* partition it writes the output at that file's local path and deletes all of
\* that file's partition files; for every partitioned file with at least one
\* missing partition and for every non-partitioned file it creates, modifies
\* and deletes nothing.
C28_OnlyReadyFilesAreTouched ==
    [][ConcatenationStep
        => \A i \in 1..Len(download_manifest.whole_files_reference) :
            LET file == download_manifest.whole_files_reference[i]
            IN  IF file.is_partitioned /\ ~OwnsAnAbsentPartition(file)
                THEN /\ file.file_path \in DOMAIN filesystem'
                     /\ \A k \in 1..NumberOfPartitions(file) :
                            PartitionPath(file, k) \notin DOMAIN filesystem'
                ELSE /\ Untouched(file.file_path)
                     /\ file.is_partitioned
                            => \A k \in 1..NumberOfPartitions(file) :
                                    Untouched(PartitionPath(file, k))]_vars

\* C29: concatenating a file uses only that file's own partitions: when two
\* partitioned files have their local paths in the same directory, each
\* concatenated output consists of exactly its own partitions 1..N, and the
\* partition files of the other file are neither appended to it nor deleted.
C29_OnlyOwnPartitionsAreUsed ==
    [][ConcatenationStep
        => \A i, j \in 1..Len(download_manifest.whole_files_reference) :
            LET file == download_manifest.whole_files_reference[i]
                other == download_manifest.whole_files_reference[j]
            IN  (/\ file.is_partitioned /\ other.is_partitioned
                 /\ file.file_path # other.file_path
                 /\ file.file_path.parent = other.file_path.parent
                 /\ AllPartitionsPresent(file))
                => /\ file.file_path \in DOMAIN filesystem'
                   /\ filesystem'[file.file_path]
                        = Flatten([k \in 1..NumberOfPartitions(file) |->
                                    filesystem[PartitionPath(file, k)]])
                   /\ ~AllPartitionsPresent(other)
                        => \A k \in 1..NumberOfPartitions(other) :
                                Untouched(PartitionPath(other, k))]_vars

\* C30: reconciliation is idempotent on a completed download: after
\* pre_concatenation_processing and concatenation_processing have run on a
\* manifest whose partitions were all present, running both again with no
\* download in between again yields an empty retry manifest and leaves the
\* concatenated files unchanged.  Checked under SpecReconcileTwice.
C30_SecondReconciliationChangesNothing ==
    [][failed_work_items = {}
        => /\ (pipeline_pc = "concatenated" /\ pipeline_pc' = "reconciled_again")
                => IsEmptyManifest(failed_downloads_manifest')
           /\ (pipeline_pc = "reconciled_again"
                    /\ pipeline_pc' = "concatenated_again")
                => \A i \in 1..Len(download_manifest.whole_files_reference) :
                    LET file == download_manifest.whole_files_reference[i]
                    IN  /\ file.file_path \in DOMAIN filesystem
                        /\ Untouched(file.file_path)]_vars

\* C19: in every manifest built from the result of one crawl, all work items
\* (whole files and partitions) have pairwise distinct local paths, whatever
\* raw file names the crawl returned.
C19_WorkItemsHaveDistinctLocalPaths ==
    ManifestsPrepared
    => \A i, j \in 1..Len(files_and_partitions_download_manifest) :
            i # j => files_and_partitions_download_manifest[i].file_path
                        # files_and_partitions_download_manifest[j].file_path

(***************************************************************************)
(* Claims about the repeated attempts, checked under SpecRetry.            *)
(***************************************************************************)
\* The partition entries of a work-item list.
PartitionEntries(work_items) ==
    {entry \in ToSet(work_items) : IsPartitionDownloadDetails(entry)}

\* C16: pre_concatenation_processing returns a new manifest whose whole-file
\* list contains only entries of the input whole-file list and whose
\* work-item list contains only partition entries of the input work-item
\* list, and it leaves both lists of the input manifest unchanged.
C16_RetryManifestIsASubsetOfItsInput ==
    [][pipeline_pc' = "reconciled"
        => /\ ToSet(failed_downloads_manifest'.whole_files_reference)
                \subseteq ToSet(download_manifest.whole_files_reference)
           /\ ToSet(failed_downloads_manifest'.concurrent_download_manifest)
                \subseteq PartitionEntries(download_manifest.concurrent_download_manifest)
           /\ download_manifest' = download_manifest]_vars

\* The second attempt ran on a retry manifest of several partitions and one
\* of them failed again: the new retry manifest holds that one only.
C16_Witness ==
    /\ pipeline_pc = "reconciled"
    /\ download_attempts = 2
    /\ Len(download_manifest.concurrent_download_manifest) >= 3
    /\ Len(failed_downloads_manifest.concurrent_download_manifest) = 1
    /\ Len(failed_downloads_manifest.whole_files_reference) = 1

\* C14: after a reconciliation pass every file that fails the integrity check
\* is in the retry manifest: a non-partitioned file as its whole
\* DownloadDetails, a partitioned (just concatenated) file with all N of its
\* partitions.
C14_FilesFailingIntegrityAreRetried ==
    pipeline_pc = "checked"
    => \A file \in files_failing_integrity :
        /\ file \in ToSet(failed_downloads_manifest.whole_files_reference)
        /\ IF file.is_partitioned
           THEN ToSet(create_list_of_file_specific_partition_download_info(
                        file, partition_size_in_mib))
                    \subseteq ToSet(failed_downloads_manifest.concurrent_download_manifest)
           ELSE file \in ToSet(failed_downloads_manifest.concurrent_download_manifest)

\* The partition is on disk and holds every byte its range has.
CompletelyDownloaded(partition) ==
    /\ partition.file_path \in DOMAIN filesystem
    /\ Len(filesystem[partition.file_path]) >= Len(ContentOf(partition.download_url))

\* C25: if a download attempt is aborted at any point, the next
\* reconciliation reports as missing every partition that was not completely
\* downloaded, a partition whose file is on disk with fewer bytes than its
\* range included.
C25_IncompletePartitionsAreReportedMissing ==
    pipeline_pc = "reconciled"
    => \A partition \in PartitionEntries(download_manifest.concurrent_download_manifest) :
        ~CompletelyDownloaded(partition)
        => partition \in ToSet(failed_downloads_manifest.concurrent_download_manifest)

\* The attempt runs on a retry manifest and all its work items succeeded.
RetryDownloadedInFull ==
    /\ download_attempts >= 2
    /\ failed_work_items = {}

\* C17: the retry manifest can be fed back as the manifest of the next
\* attempt: when exactly its work items are then downloaded successfully,
\* reconciling against it reports no missing partition, and every file in it
\* is concatenated from its complete partition set 1..N, the partitions
\* downloaded in earlier attempts included.
C17_RetryManifestCompletesTheFiles ==
    [][RetryDownloadedInFull
        => /\ pipeline_pc' = "reconciled"
                => failed_downloads_manifest'.concurrent_download_manifest = <<>>
           /\ (pipeline_pc = "reconciled" /\ pipeline_pc' = "concatenated")
                => \A i \in 1..Len(download_manifest.whole_files_reference) :
                    LET file == download_manifest.whole_files_reference[i]
                    IN  /\ AllPartitionsPresent(file)
                        /\ file.file_path \in DOMAIN filesystem'
                        /\ filesystem'[file.file_path]
                            = Flatten([k \in 1..NumberOfPartitions(file) |->
                                        filesystem[PartitionPath(file, k)]])]_vars

MaxTokens == 5

\* The tokens of the enumerated names: file types that start with WATCHLIST
\* and one that does not, an account, a date with the suffixes, and "".
NameTokens ==
    {<<"WATCHLIST">>, <<"WATCHLISTS">>, <<"COREREF">>, <<"jdoe">>,
     <<"20200716", "txt", "bz2">>, <<"">>}

\* The tokens of the names of listed files and of partition files: a file
\* type, a source id, a date with and without the suffixes, and a partition
\* index with its suffix.
StructuredNameTokens ==
    {<<"COREREF">>, <<"207">>, <<"20200716", "txt", "bz2">>, <<"20200716">>,
     <<"7", "txt">>}

\* The "_"-separated tokens of a partition file name: x.stem.split("_")[3]
\* is the fourth and last.
PartitionNameTokens == 4

\* The names of the structured tokens, up to one token more than a
\* partition file name has.
StructuredNames ==
    UNION {{Str(tokens) : tokens \in [1..n -> StructuredNameTokens]} :
            n \in 1..(PartitionNameTokens + 1)}

RawFilenames ==
    UNION {{Str(tokens) : tokens \in [1..n -> NameTokens]} : n \in 1..MaxTokens}
        \cup StructuredNames

InitNames ==
    /\ raw_file_name \in RawFilenames
    /\ cleaned_file_name = None
    /\ parsed_source = None
    /\ parsed_index = None
    /\ names_pc = "input"
    /\ PlannerIdle
    /\ partition_size_in_mib = FiveMiB
    /\ CrawlerIdle
    /\ PipelineIdle
    /\ IntegrityIdle
    /\ SessionsIdle
    /\ PartitionNamesIdle

CleanRawFilename ==
    /\ names_pc = "input"
    /\ cleaned_file_name' = clean_raw_filename(raw_file_name)
    /\ names_pc' = "cleaned"
    /\ UNCHANGED <<raw_file_name, parsed_source, parsed_index>>
    /\ UNCHANGED <<planner_vars, partition_size_in_mib, crawler_vars, pipeline_vars,
                   integrity_vars, session_vars, partition_names_vars>>

\* parse_source_from_name(file_name), the name taken as it is.
ParseSourceFromName ==
    /\ names_pc = "input"
    /\ parsed_source' = parse_source_from_name(raw_file_name)
    /\ names_pc' = "parsed"
    /\ UNCHANGED <<raw_file_name, cleaned_file_name, parsed_index>>
    /\ UNCHANGED <<planner_vars, partition_size_in_mib, crawler_vars, pipeline_vars,
                   integrity_vars, session_vars, partition_names_vars>>

\* get_downloaded_partitions over a directory that holds a file of this
\* name: the sort key taken from it when glob("*.txt") finds it.
SortDownloadedPartition ==
    /\ names_pc = "input"
    /\ EndsWithTxt(raw_file_name)
    /\ parsed_index' = partition_sort_key([parent |-> <<>>, name |-> raw_file_name])
    /\ names_pc' = "sorted"
    /\ UNCHANGED <<raw_file_name, cleaned_file_name, parsed_source>>
    /\ UNCHANGED <<planner_vars, partition_size_in_mib, crawler_vars, pipeline_vars,
                   integrity_vars, session_vars, partition_names_vars>>

NextNames ==
    \/ CleanRawFilename
    \/ ParseSourceFromName
    \/ SortDownloadedPartition

SpecNames == InitNames /\ [][NextNames]_vars

(***************************************************************************)
(* Claims about the file names, checked under SpecNames.                   *)
(***************************************************************************)
\* The tokens without the second one, the others as they were.
WithoutSecondToken(tokens) ==
    IF Len(tokens) < 2 THEN tokens
    ELSE [i \in 1..(Len(tokens) - 1) |-> IF i < 2 THEN tokens[i] ELSE tokens[i + 1]]

\* C11: for every raw file name that starts with WATCHLIST,
\* clean_raw_filename removes exactly the second "_"-separated token and keeps
\* all the remaining tokens unchanged and in their order; for every other
\* file name it returns the input unchanged.
C11_CleaningRemovesOnlyTheSecondToken ==
    names_pc = "cleaned"
    => cleaned_file_name =
        (IF StartsWithWatchlist(raw_file_name)
         THEN Str(WithoutSecondToken(raw_file_name.parts))
         ELSE raw_file_name)

\* C12: clean_raw_filename is total: for every input string, whatever the
\* number of its "_"-separated tokens, it returns a string and never fails.
C12_CleaningIsTotal ==
    names_pc = "cleaned"
    => /\ ~IsRaised(cleaned_file_name)
       /\ "parts" \in DOMAIN cleaned_file_name

\* The texts of the model that are a file type (capital letters), a source
\* id (3 or 4 digits) and a date (8 digits).
FileTypeTexts == {"WATCHLIST", "WATCHLISTS", "COREREF"}

SourceIdTexts == {"207", "367"}

DateTexts == {"20200716"}

\* <FILE-TYPE>_<SOURCE-ID>_<YYYYMMDD>.<ext>
MatchesFileNameStructure(name) ==
    /\ Len(name.parts) = 3
    /\ Len(name.parts[1]) = 1 /\ name.parts[1][1] \in FileTypeTexts
    /\ Len(name.parts[2]) = 1 /\ name.parts[2][1] \in SourceIdTexts
    /\ Len(name.parts[3]) >= 2 /\ name.parts[3][1] \in DateTexts

\* <FILE-TYPE>_<SOURCE-ID>_<YYYYMMDD>_<index>.txt
MatchesPartitionNameStructure(name) ==
    /\ Len(name.parts) = 4
    /\ Len(name.parts[1]) = 1 /\ name.parts[1][1] \in FileTypeTexts
    /\ Len(name.parts[2]) = 1 /\ name.parts[2][1] \in SourceIdTexts
    /\ Len(name.parts[3]) = 1 /\ name.parts[3][1] \in DateTexts
    /\ Len(name.parts[4]) = 2
    /\ name.parts[4][1] \in ToSet(DecimalStrings)
    /\ name.parts[4][2] = "txt"

\* C27: a discovered file name or an on-disk partition file name that does
\* not match the expected token structure causes an explicit failure:
\* parse_source_from_name and get_downloaded_partitions never return a source
\* id or a partition index parsed from such a name.
C27_MalformedNamesFail ==
    /\ (names_pc = "parsed" /\ ~MatchesFileNameStructure(raw_file_name))
        => IsRaised(parsed_source)
    /\ (names_pc = "sorted" /\ ~MatchesPartitionNameStructure(raw_file_name))
        => IsRaised(parsed_index)

(***************************************************************************)
(* SpecPartitionNames: the planner names the partitions of one file, the   *)
(* partitions are stored, and the reconciliation scans the directory.      *)
(***************************************************************************)
\* The local paths of the files a crawl can return.
LocalPaths ==
    {process_raw_download_info(create_discovered_file_object(node),
                               path_to_data_folder, FiveMiB).file_path :
        node \in DiscoverableFileNodes}

InitPartitionNames ==
    /\ partitioned_file_path \in LocalPaths
    /\ number_of_partitions \in 1..Len(DecimalStrings)
    /\ generated_partition_paths = <<>>
    /\ found_partitions = <<>>
    /\ partition_names_pc = "input"
    /\ PlannerIdle
    /\ partition_size_in_mib = FiveMiB
    /\ CrawlerIdle
    /\ PipelineIdle
    /\ NamesIdle
    /\ IntegrityIdle
    /\ SessionsIdle

\* generate_path_to_file_partition(file_path, i) for i in
\* range(len(file_partitions)), as create_list_of_file_specific_partition_download_info
\* calls it.
GeneratePathToFilePartition ==
    /\ partition_names_pc = "input"
    /\ generated_partition_paths' =
            [k \in 1..number_of_partitions |->
                generate_path_to_file_partition(partitioned_file_path, k - 1)]
    /\ partition_names_pc' = "generated"
    /\ UNCHANGED <<partitioned_file_path, number_of_partitions, found_partitions>>
    /\ UNCHANGED <<planner_vars, partition_size_in_mib, crawler_vars, pipeline_vars,
                   names_vars, integrity_vars, session_vars>>

\* Every partition has been downloaded to its path.
StorePartitions ==
    /\ partition_names_pc = "generated"
    /\ filesystem' = [path \in ToSet(generated_partition_paths) |-> <<>>]
    /\ partition_names_pc' = "stored"
    /\ UNCHANGED <<partitioned_file_path, number_of_partitions,
                   generated_partition_paths, found_partitions>>
    /\ UNCHANGED <<planner_vars, partition_size_in_mib, crawler_vars,
                   reconciliation_vars, names_vars, integrity_vars, session_vars>>

\* get_downloaded_partitions(file_path.parent).
GetDownloadedPartitions ==
    /\ partition_names_pc = "stored"
    /\ IF get_downloaded_partitions_raises(filesystem, partitioned_file_path.parent)
       THEN found_partitions' = Raised("IndexError or ValueError")
       ELSE found_partitions' \in get_downloaded_partitions(
                                    filesystem, partitioned_file_path.parent)
    /\ partition_names_pc' = "scanned"
    /\ UNCHANGED <<partitioned_file_path, number_of_partitions,
                   generated_partition_paths>>
    /\ UNCHANGED <<planner_vars, partition_size_in_mib, crawler_vars, pipeline_vars,
                   names_vars, integrity_vars, session_vars>>

NextPartitionNames ==
    \/ GeneratePathToFilePartition
    \/ StorePartitions
    \/ GetDownloadedPartitions

SpecPartitionNames == InitPartitionNames /\ [][NextPartitionNames]_vars

\* <stem up to the first dot>_<k>.txt in the directory of the file.
NamedByIndex(path_to_whole_file, k) ==
    LET parts == path_to_whole_file.name.parts
        n == Len(parts)
    IN  [parent |-> path_to_whole_file.parent,
         name |-> Str(SubSeq(parts, 1, n - 1)
                        \o << <<parts[n][1]>>, <<DecimalStrings[k], "txt">> >>)]

\* C23: planner and reconciliation agree on partition naming: for every
\* partition k (1-based) the planner generates for a file, its local path is
\* <stem up to the first dot>_<k>.txt in the file's directory, the scan of
\* that directory ('*.txt') finds that path, the index parsed from the name is
\* k, and so the on-disk sort order equals the planner's partition order.
C23_PlannerAndScanAgreeOnPartitionNames ==
    /\ partition_names_pc \in {"generated", "stored", "scanned"}
        => \A k \in 1..number_of_partitions :
            /\ generated_partition_paths[k] = NamedByIndex(partitioned_file_path, k)
            /\ partition_sort_key(generated_partition_paths[k]) = [int |-> k]
    /\ partition_names_pc \in {"stored", "scanned"}
        => \A k \in 1..number_of_partitions :
            generated_partition_paths[k]
                \in glob_txt(filesystem, partitioned_file_path.parent)
    /\ partition_names_pc = "scanned"
        => found_partitions = generated_partition_paths

\* Twelve partitions were stored and found again, the tenth after the ninth.
C23_Witness ==
    /\ partition_names_pc = "scanned"
    /\ number_of_partitions = 12
    /\ Len(found_partitions) = 12
    /\ found_partitions[10] = generated_partition_paths[10]

(***************************************************************************)
(* The session cache of the download workers (downloaders.py), checked     *)
(* under SpecSessions: worker threads call thread_get_session, and a       *)
(* thread may be suspended between any two statements of the function.     *)
(***************************************************************************)
MaxThreads == 3
MaxCalls == 2

Threads == 1..MaxThreads

\* A module attribute shared by every thread.
module_global(thread) == 1

\* thread_local = threading.local(): the attribute namespace that the
\* thread sees when it reads or writes an attribute of thread_local.
threading_local(thread) == thread

\* hasattr(thread_local, "session"), evaluated in the thread.
hasattr_session(thread) == thread_local[threading_local(thread)] # None

InitSessions ==
    /\ thread_local = [namespace \in Threads |-> None]
    /\ new_session = [thread \in Threads |-> None]
    /\ sessions_created = 0
    /\ mounted_sessions = {}
    /\ obtained_sessions = [thread \in Threads |-> <<>>]
    /\ session_pc = [thread \in Threads |-> "idle"]
    /\ PlannerIdle
    /\ partition_size_in_mib = FiveMiB
    /\ CrawlerIdle
    /\ PipelineIdle
    /\ NamesIdle
    /\ IntegrityIdle
    /\ PartitionNamesIdle

\* A thread calls thread_get_session and evaluates the condition.
ThreadGetSession ==
    /\ \E thread \in Threads :
        /\ session_pc[thread] = "idle"
        /\ Len(obtained_sessions[thread]) < MaxCalls
        /\ session_pc' = [session_pc EXCEPT ![thread] =
                IF hasattr_session(thread) THEN "returning" ELSE "constructing"]
    /\ UNCHANGED <<thread_local, new_session, sessions_created, mounted_sessions,
                   obtained_sessions>>
    /\ UNCHANGED <<planner_vars, partition_size_in_mib, crawler_vars, pipeline_vars,
                   names_vars, integrity_vars, partition_names_vars>>

\* requests.Session(): a new object, not yet assigned.
ConstructSession ==
    /\ \E thread \in Threads :
        /\ session_pc[thread] = "constructing"
        /\ sessions_created' = sessions_created + 1
        /\ new_session' = [new_session EXCEPT ![thread] =
                [id |-> sessions_created', constructed_by |-> thread]]
        /\ session_pc' = [session_pc EXCEPT ![thread] = "assigning"]
    /\ UNCHANGED <<thread_local, mounted_sessions, obtained_sessions>>
    /\ UNCHANGED <<planner_vars, partition_size_in_mib, crawler_vars, pipeline_vars,
                   names_vars, integrity_vars, partition_names_vars>>

\* thread_local.session = <the new object>.
AssignSession ==
    /\ \E thread \in Threads :
        /\ session_pc[thread] = "assigning"
        /\ thread_local' = [thread_local EXCEPT ![threading_local(thread)] =
                [session |-> new_session[thread]]]
        /\ new_session' = [new_session EXCEPT ![thread] = None]
        /\ session_pc' = [session_pc EXCEPT ![thread] = "mounting"]
    /\ UNCHANGED <<sessions_created, mounted_sessions, obtained_sessions>>
    /\ UNCHANGED <<planner_vars, partition_size_in_mib, crawler_vars, pipeline_vars,
                   names_vars, integrity_vars, partition_names_vars>>

\* thread_local.session.mount("https://", HTTPAdapter(...)).
MountAdapter ==
    /\ \E thread \in Threads :
        /\ session_pc[thread] = "mounting"
        /\ mounted_sessions' = mounted_sessions
                \cup {thread_local[threading_local(thread)].session}
        /\ session_pc' = [session_pc EXCEPT ![thread] = "returning"]
    /\ UNCHANGED <<thread_local, new_session, sessions_created, obtained_sessions>>
    /\ UNCHANGED <<planner_vars, partition_size_in_mib, crawler_vars, pipeline_vars,
                   names_vars, integrity_vars, partition_names_vars>>

\* return thread_local.session.
ReturnSession ==
    /\ \E thread \in Threads :
        /\ session_pc[thread] = "returning"
        /\ obtained_sessions' = [obtained_sessions EXCEPT ![thread] =
                Append(@, thread_local[threading_local(thread)].session)]
        /\ session_pc' = [session_pc EXCEPT ![thread] = "idle"]
    /\ UNCHANGED <<thread_local, new_session, sessions_created, mounted_sessions>>
    /\ UNCHANGED <<planner_vars, partition_size_in_mib, crawler_vars, pipeline_vars,
                   names_vars, integrity_vars, partition_names_vars>>

NextSessions ==
    \/ ThreadGetSession
    \/ ConstructSession
    \/ AssignSession
    \/ MountAdapter
    \/ ReturnSession

SpecSessions == InitSessions /\ [][NextSessions]_vars

\* C20: thread_get_session gives every worker thread its own session under
\* any interleaving of calls: the first call in a thread creates a session,
\* every later call in the same thread returns that same session, and two
\* different threads never obtain the same session object.
C20_EveryThreadHasItsOwnSession ==
    \A thread \in DOMAIN obtained_sessions :
        LET obtained == obtained_sessions[thread]
        IN  /\ \A i \in 1..Len(obtained) :
                /\ obtained[i].constructed_by = thread
                /\ obtained[i] = obtained[1]
                /\ obtained[i] \in mounted_sessions
            /\ \A other \in DOMAIN obtained_sessions \ {thread} :
                \A i \in 1..Len(obtained), j \in 1..Len(obtained_sessions[other]) :
                    obtained[i] # obtained_sessions[other][j]

\* A thread has made its calls and got the session it constructed, while
\* another thread, which constructed its session earlier, is still inside
\* its first call.
C20_Witness ==
    \E thread, other \in DOMAIN obtained_sessions :
        /\ thread # other
        /\ Len(obtained_sessions[thread]) = 2
        /\ obtained_sessions[thread][1].id = 2
        /\ session_pc[other] = "mounting"
        /\ obtained_sessions[other] = <<>>
        /\ thread_local[other] # None
        /\ thread_local[other].session.id = 1

=============================================================================
